---- MODULE Spec2Model ----
(***************************************************************************)
(* A model of the Delft3D-Toolbox file codecs (package delft3d):           *)
(*   TimeSeriesFile / TimeSeries / Parameter   (bct, bcc, dis files)       *)
(*   MdfFile                                   (mdf parameter files)       *)
(*   GrdFile                                   (grd grid files)            *)
(*   DepFile                                   (dep depth files)           *)
(*                                                                         *)
(* Text is modelled as a sequence of one-character strings, a file read    *)
(* with readlines() as a sequence of such lines, each ending in "\n".      *)
(* A Python float is modelled as an exact decimal (sign, significant       *)
(* digits, decimal exponent): the inputs are decimals that a binary64      *)
(* holds to the printed precision, so float() and the % formats are exact  *)
(* on them.  A Python exception is modelled as a result with ok = FALSE.   *)
(***************************************************************************)
EXTENDS Integers, Sequences, FiniteSets, TLC

VARIABLES
    ts_file,      \* the lines of the time-series file that was parsed
    data,         \* TimeSeriesFile.data: the sequence of TimeSeries blocks
    ts_out,       \* the last result of TimeSeriesFile.export()
    mdf_file,     \* the lines of the mdf file that was parsed
    mdf_data,     \* MdfFile.data: the ordered parameter store
    mdf_out,      \* the last result of MdfFile.export()
    grd_text,     \* the text of the grid file that was parsed
    grd,          \* the GrdFile instance: header, x, y
    grd_out,      \* the last result of GrdFile.export()
    dep_text,     \* the text of the depth file that was parsed
    dep,          \* the DepFile instance: data (and its grd_file's M)
    dep_out,      \* the last result of DepFile.export()
    sim,          \* Simulation.sim_unit: where the call is, and the files it made
    last          \* the last call made: its name, its arguments, whether it raised

ts_vars  == <<ts_file, data, ts_out>>
mdf_vars == <<mdf_file, mdf_data, mdf_out>>
grd_vars == <<grd_text, grd, grd_out>>
dep_vars == <<dep_text, dep, dep_out>>
vars     == <<ts_vars, mdf_vars, grd_vars, dep_vars, sim, last>>

-----------------------------------------------------------------------------
(* Characters and the character classes of Python's re module *)

NL == "\n"
Digit == {"0", "1", "2", "3", "4", "5", "6", "7", "8", "9"}
Lower == {"a", "b", "c", "d", "e", "f", "g", "h", "i", "j", "k", "l", "m",
          "n", "o", "p", "q", "r", "s", "t", "u", "v", "w", "x", "y", "z"}
Upper == {"A", "B", "C", "D", "E", "F", "G", "H", "I", "J", "K", "L", "M",
          "N", "O", "P", "Q", "R", "S", "T", "U", "V", "W", "X", "Y", "Z"}
\* \w
Word == Lower \cup Upper \cup Digit \cup {"_"}
IsWord(c) == c \in Word
\* \s
Space == {" ", "\t", "\n", "\r"}
IsSpace(c) == c \in Space

DigitChars == <<"0", "1", "2", "3", "4", "5", "6", "7", "8", "9">>
DigitVal(c) == (CHOOSE i \in 1..10 : DigitChars[i] = c) - 1
DigitChar(n) == DigitChars[n + 1]

\* None of Python, where a text is expected
None == <<"None">>

\* Strict(F, e) is F(e) with e evaluated once, before F is applied.  TLC
\* passes arguments and LET definitions unevaluated and may evaluate them
\* again at every use; the operators below bind what they use more than once.
Strict(F(_), e) == CHOOSE r \in {F(x) : x \in {e}} : TRUE

Max(a, b) == IF a >= b THEN a ELSE b
Min(a, b) == IF a <= b THEN a ELSE b
\* the least and the greatest element of a nonempty finite set of integers
SetMin(S) == CHOOSE x \in S : \A y \in S : x <= y
SetMax(S) == CHOOSE x \in S : \A y \in S : x >= y

\* n copies of c
Rep(c, n) == [i \in 1..Max(n, 0) |-> c]
\* str.ljust(n), str.rjust(n)
ljust(s, n) == s \o Rep(" ", n - Len(s))
rjust(s, n) == Rep(" ", n - Len(s)) \o s

\* the length of the longest run of characters of the class C (a set) that
\* starts at s[i]
RECURSIVE RunLen(_, _, _)
RunLen(s, i, C) ==
    IF i > Len(s) \/ s[i] \notin C THEN 0 ELSE 1 + RunLen(s, i + 1, C)
\* the same for the characters outside C
RECURSIVE RunLenNot(_, _, _)
RunLenNot(s, i, C) ==
    IF i > Len(s) \/ s[i] \in C THEN 0 ELSE 1 + RunLenNot(s, i + 1, C)

\* s[i:] starts with the text t
StartsAt(s, i, t) ==
    /\ i + Len(t) - 1 <= Len(s)
    /\ \A k \in 1..Len(t) : s[i + k - 1] = t[k]

\* t in s
Contains(s, t) == \E i \in 1..(Len(s) + 1) : StartsAt(s, i, t)
HasChar(s, c) == \E i \in 1..Len(s) : s[i] = c

\* str.strip(c), str.rstrip(c) for one character c
RECURSIVE lstrip(_, _)
lstrip(s, c) ==
    IF s # <<>> /\ Head(s) = c THEN Strict(LAMBDA t : lstrip(t, c), Tail(s)) ELSE s
RECURSIVE rstrip(_, _)
rstrip(s, c) ==
    IF s # <<>> /\ s[Len(s)] = c
    THEN Strict(LAMBDA t : rstrip(t, c), SubSeq(s, 1, Len(s) - 1)) ELSE s
strip(s, c) == Strict(LAMBDA t : rstrip(t, c), lstrip(s, c))

\* str.replace(c, '')
RECURSIVE remove(_, _)
remove(s, c) ==
    IF s = <<>> THEN <<>>
    ELSE (IF Head(s) = c THEN <<>> ELSE <<Head(s)>>)
         \o Strict(LAMBDA t : remove(t, c), Tail(s))

\* str.split(): the maximal runs of non-whitespace characters
RECURSIVE split(_)
split(s) ==
    IF s = <<>> THEN <<>>
    ELSE IF IsSpace(Head(s)) THEN Strict(split, Tail(s))
    ELSE Strict(LAMBDA n : <<SubSeq(s, 1, n)>> \o Strict(split, SubSeq(s, n + 1, Len(s))),
                RunLenNot(s, 1, Space))

\* the concatenation of a sequence of texts
RECURSIVE Flatten(_)
Flatten(ss) == IF ss = <<>> THEN <<>> ELSE Head(ss) \o Strict(Flatten, Tail(ss))

-----------------------------------------------------------------------------
(* Numbers.  A float is [k |-> "num", neg, d, e]: the decimal              *)
(* (-1)^neg * d[1].d[2]d[3]... * 10^e, d without leading or trailing       *)
(* zeros (d = <<>> is zero, which keeps its sign as in IEEE), or           *)
(* [k |-> "nan"].                                                          *)

NaN == [k |-> "nan", neg |-> FALSE, d |-> <<>>, e |-> 0]
Zero(neg) == [k |-> "num", neg |-> neg, d |-> <<>>, e |-> 0]

RECURSIVE StripTrailingZeros(_)
StripTrailingZeros(d) ==
    IF d # <<>> /\ d[Len(d)] = 0
    THEN Strict(StripTrailingZeros, SubSeq(d, 1, Len(d) - 1))
    ELSE d

\* the float with the digits d (leading zeros allowed), the first one
\* weighing 10^e
RECURSIVE Normalize(_, _, _)
Normalize(neg, d, e) ==
    IF d = <<>> THEN Zero(neg)
    ELSE IF Head(d) = 0 THEN Strict(LAMBDA t : Normalize(neg, t, e - 1), Tail(d))
    ELSE [k |-> "num", neg |-> neg, d |-> StripTrailingZeros(d), e |-> e]

\* the digits of a natural number, most significant first
RECURSIVE NatDigits(_)
NatDigits(n) == IF n < 10 THEN <<n>> ELSE Strict(NatDigits, n \div 10) \o <<n % 10>>

\* the value of a sequence of digits
RECURSIVE DigitsNat(_)
DigitsNat(d) ==
    IF d = <<>> THEN 0
    ELSE 10 * Strict(DigitsNat, SubSeq(d, 1, Len(d) - 1)) + d[Len(d)]

\* float(n) for an integer n
FromInt(n) ==
    Strict(LAMBDA d : Normalize(n < 0, d, Len(d) - 1),
           NatDigits(IF n < 0 THEN -n ELSE n))

IsZero(v) == v.k = "num" /\ v.d = <<>>

\* str(n) for an integer n
str(n) ==
    Strict(LAMBDA d : (IF n < 0 THEN <<"-">> ELSE <<>>)
                      \o [i \in 1..Len(d) |-> DigitChar(d[i])],
           NatDigits(IF n < 0 THEN -n ELSE n))

\* float(s) for a token s without surrounding whitespace:
\* [sign] digits [. digits] [(e|E) [sign] digits], or [sign] . digits ...
\* ok = FALSE is ValueError.
ParseFloat(s) ==
    LET sgn  == IF s # <<>> /\ s[1] \in {"+", "-"} THEN 1 ELSE 0
        neg  == sgn = 1 /\ s[1] = "-"
        i0   == sgn + 1
    IN  Strict(LAMBDA nInt :
        LET i1   == i0 + nInt
            dot  == i1 <= Len(s) /\ s[i1] = "."
            i2   == IF dot THEN i1 + 1 ELSE i1
        IN  Strict(LAMBDA nFr :
            LET i3   == i2 + nFr
                hasE == i3 <= Len(s) /\ s[i3] \in {"e", "E"}
                esg  == IF hasE /\ i3 + 1 <= Len(s) /\ s[i3 + 1] \in {"+", "-"}
                        THEN 1 ELSE 0
                eneg == esg = 1 /\ s[i3 + 1] = "-"
                i4   == i3 + 1 + esg
            IN  Strict(LAMBDA nEx :
                LET end  == IF hasE THEN i4 + nEx ELSE i3
                    wellFormed == /\ nInt + nFr >= 1
                                  /\ hasE => nEx >= 1
                                  /\ end = Len(s) + 1
                    digs == [i \in 1..(nInt + nFr) |->
                                DigitVal(IF i <= nInt THEN s[i0 + i - 1]
                                         ELSE s[i2 + i - nInt - 1])]
                    ex   == IF hasE
                            THEN DigitsNat([i \in 1..nEx |-> DigitVal(s[i4 + i - 1])])
                            ELSE 0
                IN  IF ~wellFormed THEN [ok |-> FALSE, v |-> NaN]
                    ELSE [ok |-> TRUE,
                          v  |-> Normalize(neg, digs,
                                           (nInt - 1) + (IF eneg THEN -ex ELSE ex))],
                IF hasE THEN RunLen(s, i4, Digit) ELSE 0),
            IF dot THEN RunLen(s, i2, Digit) ELSE 0),
        RunLen(s, i0, Digit))

\* the digits d rounded half-up to n significant digits; carry = TRUE when
\* the rounding carried into a new leading digit
RECURSIVE Increment(_)
Increment(d) ==
    IF d = <<>> THEN <<1>>
    ELSE IF d[Len(d)] < 9 THEN [d EXCEPT ![Len(d)] = @ + 1]
    ELSE Strict(Increment, SubSeq(d, 1, Len(d) - 1)) \o <<0>>

RoundDigits(d, n) ==
    LET kept == SubSeq(d \o Rep(0, n - Len(d)), 1, n)
        up   == Len(d) > n /\ d[n + 1] >= 5
    IN  Strict(LAMBDA r : IF Len(r) > n THEN [d |-> SubSeq(r, 1, n), carry |-> TRUE]
                          ELSE [d |-> r, carry |-> FALSE],
               IF up THEN Increment(kept) ELSE kept)

\* "%.<prec>e" % v  (E = "e")  and  "%.<prec>E" % v  (E = "E")
FormatE(v, prec, E) ==
    IF v.k = "nan" THEN (IF E = "e" THEN <<"n", "a", "n">> ELSE <<"N", "A", "N">>)
    ELSE
    Strict(LAMBDA r :
        LET ex == IF v.d = <<>> THEN 0 ELSE v.e + (IF r.carry THEN 1 ELSE 0)
        IN  Strict(LAMBDA ed :
                LET edig == IF Len(ed) < 2 THEN <<0>> \o ed ELSE ed
                IN  (IF v.neg THEN <<"-">> ELSE <<>>)
                    \o <<DigitChar(r.d[1])>>
                    \o (IF prec > 0 THEN <<".">> ELSE <<>>)
                    \o [i \in 1..prec |-> DigitChar(r.d[i + 1])]
                    \o <<E, IF ex < 0 THEN "-" ELSE "+">>
                    \o [i \in 1..Len(edig) |-> DigitChar(edig[i])],
                NatDigits(IF ex < 0 THEN -ex ELSE ex)),
        RoundDigits(v.d, prec + 1))

\* int(v): the float truncated towards zero (for 0 <= v.e < 9)
TruncInt(v) ==
    IF v.d = <<>> \/ v.e < 0 THEN 0
    ELSE Strict(LAMBDA n : IF v.neg THEN -n ELSE n,
                DigitsNat(SubSeq(v.d \o Rep(0, v.e + 1), 1, v.e + 1)))

\* "%d" % v
FormatD(v) == str(TruncInt(v))

-----------------------------------------------------------------------------
(* Python dicts keep insertion order: an ordered dict is a sequence of     *)
(* [key, val] entries with distinct keys.                                  *)

HasKey(d, k) == \E i \in 1..Len(d) : d[i].key = k
KeyIndex(d, k) == CHOOSE i \in 1..Len(d) : d[i].key = k
\* d[k], for a key of d
Get(d, k) == d[KeyIndex(d, k)].val
\* d[k] = v: an existing key keeps its place, a new key goes last
Put(d, k, v) ==
    Strict(LAMBDA old : IF HasKey(old, k) THEN [old EXCEPT ![KeyIndex(old, k)].val = v]
                        ELSE Append(old, [key |-> k, val |-> v]),
           d)
Keys(d) == [i \in 1..Len(d) |-> d[i].key]

-----------------------------------------------------------------------------
(* TimeSeriesFile.py: class Parameter *)

K_parameter        == <<"p", "a", "r", "a", "m", "e", "t", "e", "r">>
K_records_in_table == <<"r", "e", "c", "o", "r", "d", "s", "-", "i", "n", "-", "t", "a", "b", "l", "e">>
K_reference_time   == <<"r", "e", "f", "e", "r", "e", "n", "c", "e", "-", "t", "i", "m", "e">>
K_table_name       == <<"t", "a", "b", "l", "e", "-", "n", "a", "m", "e">>

\* [\w\d (),./:-] of header_re, which is also [\w() /:,.-] of value_re
ValueClass == Word \cup {" ", "(", ")", ",", ".", "/", ":", "-"}
\* [\w/] of unit_re
UnitClass == Word \cup {"/"}
\* [\w-] of header_re
KeyClass == Word \cup {"-"}

\* \b before s[p] (p = Len(s) + 1: at the end)
WordBoundary(s, p) ==
    LET before == p - 1 >= 1 /\ p - 1 <= Len(s) /\ IsWord(s[p - 1])
        after  == p >= 1 /\ p <= Len(s) /\ IsWord(s[p])
    IN  before # after

\* re.compile(r'[\w() /:,.-]+\b\)?').search(value): the leftmost match, the
\* run taken as long as a word boundary allows
value_re(value) ==
    LET Ends(i) == {r \in 1..RunLen(value, i, ValueClass) : WordBoundary(value, i + r)}
    IN  Strict(LAMBDA starts :
            IF starts = {} THEN [ok |-> FALSE, m |-> <<>>]
            ELSE Strict(LAMBDA i :
                     Strict(LAMBDA r :
                         LET paren == i + r <= Len(value) /\ value[i + r] = ")"
                         IN  [ok |-> TRUE,
                              m  |-> SubSeq(value, i, i + r - 1 + (IF paren THEN 1 ELSE 0))],
                         SetMax(Ends(i))),
                     SetMin(starts)),
            {i \in 1..Len(value) : Ends(i) # {}})

\* re.compile(r"unit '\[([\w/]+)\]'").search(unit)[1]
unit_name_re(unit) ==
    LET pre      == <<"u", "n", "i", "t", " ", "'", "[">>
        Name(i)  == RunLen(unit, i + Len(pre), UnitClass)
        Match(i) == /\ StartsAt(unit, i, pre)
                    /\ Name(i) >= 1
                    /\ StartsAt(unit, i + Len(pre) + Name(i), <<"]", "'">>)
    IN  Strict(LAMBDA starts :
            IF starts = {} THEN [ok |-> FALSE, m |-> <<>>]
            ELSE Strict(LAMBDA i :
                     [ok |-> TRUE,
                      m  |-> SubSeq(unit, i + Len(pre), i + Len(pre) + Name(i) - 1)],
                     SetMin(starts)),
            {i \in 1..Len(unit) : Match(i)})

\* What a header holds under a key: a Parameter (type "str" or "num"), the
\* nested dict of the parameters (type "dict", in sub) or None (type "None").
NoneValue ==
    [value |-> None, value_length |-> 0, type |-> "None",
     unit |-> None, unit_length |-> 0, sub |-> <<>>]
DictValue(d) == [NoneValue EXCEPT !.type = "dict", !.sub = d]

\* Parameter.__init__(value, unit); ok = FALSE when it raises (value_match or
\* unit_match is None)
Parameter(value, unit) ==
    LET hasUnit == unit # None /\ unit # <<>>
        quoted  == HasChar(value, "'")
    IN  Strict(LAMBDA vm :
        Strict(LAMBDA um :
            IF ~vm.ok \/ (hasUnit /\ ~um.ok) THEN [ok |-> FALSE, p |-> NoneValue]
            ELSE [ok |-> TRUE,
                  p  |-> [value        |-> vm.m,
                          value_length |-> IF quoted THEN Len(value) - 2 ELSE Len(value),
                          type         |-> IF quoted THEN "str" ELSE "num",
                          unit         |-> IF hasUnit THEN um.m ELSE None,
                          unit_length  |-> IF hasUnit THEN Len(unit) ELSE 0,
                          sub          |-> <<>>]],
            unit_name_re(unit)),
        value_re(value))

\* Parameter.export() without the padding of ljust and rjust
Parameter_export_bare(p) ==
    IF p.type = "str"
    THEN <<"'">> \o p.value \o <<"'">>
         \o (IF p.unit # None /\ p.unit # <<>>
             THEN <<"u", "n", "i", "t", " ", "'", "[">> \o p.unit \o <<"]", "'">>
             ELSE <<>>)
    ELSE p.value

\* Parameter.export()
Parameter_export(p) ==
    IF p.type = "str"
    THEN <<"'">> \o ljust(p.value, p.value_length) \o <<"'">>
         \o (IF p.unit # None /\ p.unit # <<>>
             THEN rjust(<<"u", "n", "i", "t", " ", "'", "[">> \o p.unit \o <<"]", "'">>, p.unit_length)
             ELSE <<>>)
    ELSE ljust(p.value, p.value_length)

-----------------------------------------------------------------------------
(* pandas timestamps, as far as the codec uses them: a Timestamp is the    *)
(* number of minutes since 1970-01-01 00:00.                               *)

IsLeap(y) == (y % 4 = 0 /\ y % 100 # 0) \/ y % 400 = 0
DaysInMonth(y, m) ==
    IF m = 2 THEN (IF IsLeap(y) THEN 29 ELSE 28)
    ELSE IF m \in {4, 6, 9, 11} THEN 30 ELSE 31

\* the day number of the civil date y-m-d (days since 1970-01-01)
days_from_civil(y, m, d) ==
    LET yy  == IF m <= 2 THEN y - 1 ELSE y
        era == yy \div 400
        yoe == yy - era * 400
        doy == (153 * (IF m > 2 THEN m - 3 ELSE m + 9) + 2) \div 5 + d - 1
        doe == yoe * 365 + yoe \div 4 - yoe \div 100 + doy
    IN  era * 146097 + doe - 719468

\* the civil date of a day number
civil_from_days(z) ==
    LET zz  == z + 719468
        era == zz \div 146097
        doe == zz - era * 146097
        yoe == (doe - doe \div 1460 + doe \div 36524 - doe \div 146096) \div 365
        doy == doe - (365 * yoe + yoe \div 4 - yoe \div 100)
        mp  == (5 * doy + 2) \div 153
        d   == doy - (153 * mp + 2) \div 5 + 1
        m   == IF mp < 10 THEN mp + 3 ELSE mp - 9
    IN  [y |-> yoe + era * 400 + (IF m <= 2 THEN 1 ELSE 0), m |-> m, d |-> d]

MinutesPerDay == 24 * 60

AllDigits(s) == \A i \in 1..Len(s) : s[i] \in Digit
Num2(s, i) == 10 * DigitVal(s[i]) + DigitVal(s[i + 1])
Num4(s, i) == 100 * Num2(s, i) + Num2(s, i + 2)

\* pd.to_datetime(s) for the forms YYYYMMDD and YYYY-MM-DD, each with an
\* optional " HH:MM"; ok = FALSE when it raises
to_datetime(s) ==
    LET compact == Len(s) >= 8 /\ AllDigits(SubSeq(s, 1, 8))
        dashed  == /\ Len(s) >= 10
                   /\ AllDigits(SubSeq(s, 1, 4)) /\ s[5] = "-"
                   /\ AllDigits(SubSeq(s, 6, 7)) /\ s[8] = "-"
                   /\ AllDigits(SubSeq(s, 9, 10))
        dlen    == IF compact THEN 8 ELSE 10
        y       == Num4(s, 1)
        m       == IF compact THEN Num2(s, 5) ELSE Num2(s, 6)
        d       == IF compact THEN Num2(s, 7) ELSE Num2(s, 9)
        rest    == SubSeq(s, dlen + 1, Len(s))
        hasTime == /\ Len(rest) = 6 /\ rest[1] = " " /\ rest[4] = ":"
                   /\ AllDigits(SubSeq(rest, 2, 3)) /\ AllDigits(SubSeq(rest, 5, 6))
                   /\ Num2(rest, 2) < 24 /\ Num2(rest, 5) < 60
        valid   == /\ compact \/ dashed
                   /\ rest = <<>> \/ hasTime
                   /\ m \in 1..12 /\ d >= 1 /\ d <= DaysInMonth(y, m)
    IN  IF ~valid THEN [ok |-> FALSE, t |-> 0]
        ELSE [ok |-> TRUE,
              t  |-> days_from_civil(y, m, d) * MinutesPerDay
                     + (IF hasTime THEN 60 * Num2(rest, 2) + Num2(rest, 5) ELSE 0)]

Pad0(n, w) ==
    Strict(LAMBDA d : [i \in 1..Len(d) |-> DigitChar(d[i])],
           Strict(LAMBDA d : Rep(0, w - Len(d)) \o d, NatDigits(n)))

\* strftime with the day and the month exchanged ("%Y%d%m")
strftime_Ydm(t) ==
    Strict(LAMBDA c : Pad0(c.y, 4) \o Pad0(c.d, 2) \o Pad0(c.m, 2),
           civil_from_days(t \div MinutesPerDay))

\* Timestamp.strftime("%Y%m%d")
strftime_Ymd(t) ==
    Strict(LAMBDA c : Pad0(c.y, 4) \o Pad0(c.m, 2) \o Pad0(c.d, 2),
           civil_from_days(t \div MinutesPerDay))

-----------------------------------------------------------------------------
(* TimeSeriesFile.py: class TimeSeries, parsing *)

\* header_re = ^([^-][\w-]+)\s+('?[\w\d (),./:-]+'?) searched in a line.
\* \s+ gives back whitespace until the value group can start.
header_re(line) ==
    LET Quoted(p) == /\ p <= Len(line) /\ line[p] = "'"
                     /\ RunLen(line, p + 1, ValueClass) >= 1
        Bare(p)   == RunLen(line, p, ValueClass) >= 1
    IN  Strict(LAMBDA w :
        Strict(LAMBDA good :
            IF Len(line) < 1 \/ line[1] = "-" \/ w < 1 \/ good = {}
            THEN [ok |-> FALSE, g1 |-> <<>>, g2 |-> <<>>]
            ELSE Strict(LAMBDA p :
                     Strict(LAMBDA body :
                         LET end == IF body + 1 <= Len(line) /\ line[body + 1] = "'"
                                    THEN body + 1 ELSE body
                         IN  [ok |-> TRUE, g1 |-> SubSeq(line, 1, 1 + w),
                              g2 |-> SubSeq(line, p, end)],
                         IF Quoted(p) THEN p + RunLen(line, p + 1, ValueClass)
                         ELSE p + RunLen(line, p, ValueClass) - 1),
                     2 + w + SetMax(good)),
            {s \in 1..RunLen(line, 2 + w, Space) : Quoted(2 + w + s) \/ Bare(2 + w + s)}),
        RunLen(line, 2, KeyClass))

\* unit_re = ([\s]+unit '\[[\w/]+\]') searched in a line: the leftmost match
unit_re(line) ==
    LET pre      == <<"u", "n", "i", "t", " ", "'", "[">>
        End(i)   == Strict(LAMBDA u :
                        Strict(LAMBDA n :
                            IF /\ u > i
                               /\ StartsAt(line, u, pre)
                               /\ n >= 1
                               /\ StartsAt(line, u + Len(pre) + n, <<"]", "'">>)
                            THEN u + Len(pre) + n + 1 ELSE 0,
                            RunLen(line, u + Len(pre), UnitClass)),
                        i + RunLen(line, i, Space))
    IN  Strict(LAMBDA starts :
            IF starts = {} THEN [ok |-> FALSE, g1 |-> None]
            ELSE Strict(LAMBDA i : [ok |-> TRUE, g1 |-> SubSeq(line, i, End(i))],
                        SetMin(starts)),
            {i \in 1..Len(line) : End(i) > 0})

\* What the body of the loop of load_header computes from one line: the
\* match of header_re, and for a matching line the Parameter it builds
\* (ok = FALSE when building it raises) under the key it is stored with.
HeaderLineParse(line) ==
    Strict(LAMBDA matches :
        IF ~matches.ok THEN [matches |-> FALSE, ok |-> TRUE, g1 |-> <<>>, key_name |-> <<>>,
                             p |-> NoneValue]
        ELSE IF matches.g1 = K_parameter
        THEN Strict(LAMBDA unit_match :
                 IF ~unit_match.ok
                 THEN [matches |-> TRUE, ok |-> FALSE, g1 |-> matches.g1,
                       key_name |-> <<>>, p |-> NoneValue]
                 ELSE Strict(LAMBDA parm :
                          [matches |-> TRUE, ok |-> parm.ok, g1 |-> matches.g1,
                           key_name |-> strip(strip(matches.g2, "'"), " "), p |-> parm.p],
                          Parameter(matches.g2, unit_match.g1)),
                 unit_re(line))
        ELSE Strict(LAMBDA parm :
                 [matches |-> TRUE, ok |-> parm.ok, g1 |-> matches.g1,
                  key_name |-> <<>>, p |-> parm.p],
                 Parameter(matches.g2, None)),
        header_re(line))

\* TimeSeries.load_header: the loop over the lines, parsed[i] what the body
\* computes from line i; acc holds the locals header_dict, parameter and
\* records_in_table
RECURSIVE load_header_loop(_, _, _)
load_header_loop(parsed, i, acc) ==
    LET Continue(a) == load_header_loop(parsed, i + 1, a)
    IN  IF i > Len(parsed) THEN [ok |-> TRUE, header |-> acc.header_dict]
        ELSE IF ~parsed[i].matches
        THEN \* end of the header
             [ok |-> TRUE,
              header |-> Put(Put(acc.header_dict, K_parameter, DictValue(acc.parameter)),
                             K_records_in_table, acc.records_in_table)]
        ELSE IF ~parsed[i].ok THEN [ok |-> FALSE, header |-> <<>>]
        ELSE IF parsed[i].g1 = K_parameter
        THEN Strict(Continue,
                    [acc EXCEPT !.parameter = Put(@, parsed[i].key_name, parsed[i].p)])
        ELSE IF parsed[i].g1 = K_records_in_table
        THEN Strict(Continue, [acc EXCEPT !.records_in_table = parsed[i].p])
        ELSE Strict(Continue,
                    [acc EXCEPT !.header_dict = Put(@, parsed[i].g1, parsed[i].p)])

load_header(time_series) ==
    Strict(LAMBDA parsed :
               load_header_loop(parsed, 1,
                   [header_dict |-> <<>>, parameter |-> <<>>,
                    records_in_table |-> NoneValue]),
           [i \in 1..Len(time_series) |-> HeaderLineParse(time_series[i])])

\* the floats of a data line: [float(i) for i in line.split()]
LineFloats(line) ==
    Strict(LAMBDA fl : [ok |-> \A i \in 1..Len(fl) : fl[i].ok,
                        v  |-> [i \in 1..Len(fl) |-> fl[i].v]],
           Strict(LAMBDA toks : [i \in 1..Len(toks) |-> ParseFloat(toks[i])],
                  split(line)))

\* TimeSeries.load_time_series: the loop over the lines.  is_header is True
\* up to and including the first line that holds 'records-in-table'; every
\* line after it is a data line and needs three floats at least.  A row of
\* the DataFrame is [index, v], v its three cells.
load_rows(time_series, reference_time) ==
    Strict(LAMBDA marks :
        IF marks = {} THEN [ok |-> TRUE, rows |-> <<>>]
        ELSE Strict(LAMBDA first :
             Strict(LAMBDA fl :
                 IF \E j \in 1..Len(fl) : ~fl[j].ok \/ Len(fl[j].v) < 3
                 THEN [ok |-> FALSE, rows |-> <<>>]
                 ELSE [ok |-> TRUE,
                       rows |-> [j \in 1..Len(fl) |->
                                    [index |-> reference_time + TruncInt(fl[j].v[1]),
                                     v     |-> SubSeq(fl[j].v, 1, 3)]]],
                 [j \in 1..(Len(time_series) - first) |-> LineFloats(time_series[first + j])]),
             SetMin(marks)),
        {i \in 1..Len(time_series) : Contains(time_series[i], K_records_in_table)})

\* TimeSeries.load_time_series(time_series), given self.header
load_time_series(header, time_series) ==
    IF ~HasKey(header, K_reference_time) THEN [ok |-> FALSE, time_series |-> <<>>]
    ELSE
    Strict(LAMBDA reference_time :
        IF ~reference_time.ok THEN [ok |-> FALSE, time_series |-> <<>>]
        ELSE Strict(LAMBDA rows :
                 IF ~rows.ok THEN [ok |-> FALSE, time_series |-> <<>>]
                 ELSE IF ~HasKey(header, K_parameter) THEN [ok |-> FALSE, time_series |-> <<>>]
                 ELSE IF Len(Get(header, K_parameter).sub) < 3
                 THEN [ok |-> FALSE, time_series |-> <<>>]
                 ELSE [ok |-> TRUE, time_series |-> rows.rows],
                 load_rows(time_series, reference_time.t)),
        Strict(to_datetime, Get(header, K_reference_time).value))

\* TimeSeries.__init__(time_series)
TimeSeries(time_series) ==
    Strict(LAMBDA h :
        IF ~h.ok THEN [ok |-> FALSE, header |-> <<>>, time_series |-> <<>>]
        ELSE Strict(LAMBDA t :
                 IF ~t.ok THEN [ok |-> FALSE, header |-> <<>>, time_series |-> <<>>]
                 ELSE [ok |-> TRUE, header |-> h.header, time_series |-> t.time_series],
                 load_time_series(h.header, time_series)),
        load_header(time_series))

\* TimeSeriesFile.load_file: the loop over the lines, which cuts the file
\* into the slices data[start_index:end_index] it hands to TimeSeries.
\* names[i] tells whether line i holds 'table-name'; a slice is <<first,
\* last>>, 1-based and inclusive.
RECURSIVE load_file_loop(_, _, _, _, _)
load_file_loop(names, i, start_index, in_table, slices) ==
    LET Continue(start, table, sl) ==
            Strict(LAMBDA a : load_file_loop(names, i + 1, a.start, a.table, a.slices),
                   [start |-> start, table |-> table, slices |-> sl])
    IN  IF i > Len(names) THEN slices
        ELSE IF in_table /\ i = Len(names)
        THEN \* last time series
             Continue(start_index, in_table, Append(slices, <<start_index, Len(names)>>))
        ELSE IF names[i]
        THEN IF in_table
             THEN Continue(i, in_table, Append(slices, <<start_index, i - 1>>))
             ELSE Continue(start_index, TRUE, slices)
        ELSE Continue(start_index, in_table, slices)

\* TimeSeriesFile.load_file() on the lines of the file; ok = FALSE when a
\* TimeSeries(...) raises
load_file(lines) ==
    Strict(LAMBDA slices :
        Strict(LAMBDA blocks :
            IF \E k \in 1..Len(blocks) : ~blocks[k].ok THEN [ok |-> FALSE, data |-> <<>>]
            ELSE [ok |-> TRUE,
                  data |-> [k \in 1..Len(blocks) |->
                               [header |-> blocks[k].header,
                                time_series |-> blocks[k].time_series]]],
            [k \in 1..Len(slices) |->
                TimeSeries(SubSeq(lines, slices[k][1], slices[k][2]))]),
        Strict(LAMBDA names : load_file_loop(names, 1, 1, FALSE, <<>>),
               [i \in 1..Len(lines) |-> Contains(lines[i], K_table_name)]))

-----------------------------------------------------------------------------
(* TimeSeriesFile.py: class TimeSeries, mutation and export *)

\* a loop that assigns the new text to the value and to the unit alike
set_parameter_loop_both(parameter, items, unit) ==
    IF items = <<>> THEN [ok |-> TRUE, d |-> parameter]
    ELSE IF ~HasKey(parameter, Head(items).key) THEN [ok |-> FALSE, d |-> parameter]
    ELSE [ok |-> Len(items) = 1,
          d  |-> [parameter EXCEPT ![KeyIndex(parameter, Head(items).key)].val.unit =
                                       Head(items).val,
                                   ![KeyIndex(parameter, Head(items).key)].val.value =
                                       Head(items).val]]

\* The loop of set_header over the labels of a 'parameter' entry.  items is
\* the caller's dict {label: new text}; ok = FALSE is the KeyError of an
\* unknown label, raised after the labels before it were assigned.
RECURSIVE set_parameter_loop(_, _, _)
set_parameter_loop(parameter, items, unit) ==
    IF items = <<>> THEN [ok |-> TRUE, d |-> parameter]
    ELSE LET key_ == Head(items).key
             new  == Head(items).val
         IN  IF ~HasKey(parameter, key_) THEN [ok |-> FALSE, d |-> parameter]
             ELSE Strict(LAMBDA a : set_parameter_loop(a.parameter, a.items, unit),
                      [parameter |->
                          IF unit
                          THEN [parameter EXCEPT ![KeyIndex(parameter, key_)].val.unit = new]
                          ELSE [parameter EXCEPT ![KeyIndex(parameter, key_)].val.value = new],
                       items |-> Tail(items)])

\* The loop of set_header over the caller's dict.  An item is
\* [key, val, sub]: val the new text str(new_parm), sub the nested dict given
\* for the key 'parameter'.  header.copy() is a shallow copy: the loop
\* assigns to the Parameter objects that self.header holds, so what it did
\* before an exception stays.
RECURSIVE set_header_loop(_, _, _)
set_header_loop(header, items, unit) ==
    LET key == Head(items).key
        Continue(h) == Strict(LAMBDA a : set_header_loop(a.header, a.items, unit),
                              [header |-> h, items |-> Tail(items)])
    IN  IF items = <<>> THEN [ok |-> TRUE, header |-> header]
        ELSE IF key # K_parameter
        THEN \* a regular header, 'reference-time' or 'records-in-table'
             IF ~HasKey(header, key) \/ Get(header, key).type = "None"
             THEN [ok |-> FALSE, header |-> header]
             ELSE Continue([header EXCEPT ![KeyIndex(header, key)].val.value =
                                              Head(items).val])
        ELSE IF ~HasKey(header, key) THEN [ok |-> FALSE, header |-> header]
        ELSE Strict(LAMBDA r :
                 Strict(LAMBDA h : IF ~r.ok THEN [ok |-> FALSE, header |-> h]
                                   ELSE Continue(h),
                        [header EXCEPT ![KeyIndex(header, key)].val.sub = r.d]),
                 set_parameter_loop(Get(header, key).sub, Head(items).sub, unit))

\* set_header that moves the last field of the header to the front
set_header_moved(block, items, unit) ==
    Strict(LAMBDA r : [ok |-> r.ok,
                       block |-> [block EXCEPT !.header =
                                      IF r.ok THEN <<r.header[Len(r.header)]>>
                                                   \o SubSeq(r.header, 1, Len(r.header) - 1)
                                      ELSE r.header]],
           set_header_loop(block.header, items, unit))

\* TimeSeries.set_header(data, unit) on a block
set_header(block, items, unit) ==
    Strict(LAMBDA r : [ok |-> r.ok, block |-> [block EXCEPT !.header = r.header]],
           set_header_loop(block.header, items, unit))

Item(key, val) == [key |-> key, val |-> val, sub |-> <<>>]

\* A pd.Series is a sequence of [index, val] with strictly increasing index.
Indexes(s) == {s[i].index : i \in 1..Len(s)}
At(s, t) == IF t \in Indexes(s) THEN s[CHOOSE i \in 1..Len(s) : s[i].index = t].val ELSE NaN

\* a finite set of integers in increasing order
RECURSIVE Sorted(_)
Sorted(S) ==
    IF S = {} THEN <<>>
    ELSE Strict(LAMBDA m : <<m>> \o Strict(Sorted, S \ {m}), SetMin(S))

\* pd.concat([data1, data2], axis=1): the outer join on the index, a cell
\* that a series lacks is NaN
concat_axis1(data1, data2) ==
    Strict(LAMBDA idx :
               [i \in 1..Len(idx) |->
                   [index |-> idx[i], v |-> <<At(data1, idx[i]), At(data2, idx[i])>>]],
           Sorted(Indexes(data1) \cup Indexes(data2)))

\* set_time_series without the update of 'records-in-table'
set_time_series_stale(block, reference_time, data1, data2) ==
    Strict(LAMBDA ref :
        IF ~ref.ok THEN [ok |-> FALSE, block |-> block]
        ELSE Strict(LAMBDA joined :
             Strict(LAMBDA table :
                 set_header([block EXCEPT !.time_series = table],
                            <<Item(K_reference_time, strftime_Ymd(ref.t))>>,
                            FALSE),
                 [i \in 1..Len(joined) |->
                     [index |-> joined[i].index,
                      v     |-> <<FromInt(joined[i].index - ref.t)>> \o joined[i].v]]),
             concat_axis1(data1, data2)),
        to_datetime(reference_time))

\* TimeSeries.set_time_series(reference_time, data1, data2) on a block
set_time_series(block, reference_time, data1, data2) ==
    Strict(LAMBDA ref :
        IF ~ref.ok THEN [ok |-> FALSE, block |-> block]
        ELSE Strict(LAMBDA joined :
             Strict(LAMBDA table :
                 set_header([block EXCEPT !.time_series = table],
                            <<Item(K_records_in_table, str(Len(table))),
                              Item(K_reference_time, strftime_Ymd(ref.t))>>,
                            FALSE),
                 [i \in 1..Len(joined) |->
                     [index |-> joined[i].index,
                      v     |-> <<FromInt(joined[i].index - ref.t)>> \o joined[i].v]]),
             concat_axis1(data1, data2)),
        to_datetime(reference_time))

\* TimeSeries.export_header()
RECURSIVE export_header(_)
export_header(header) ==
    IF header = <<>> THEN <<>>
    ELSE LET key  == Head(header).key
             parm == Head(header).val
         IN  (IF key # K_parameter
              THEN <<ljust(key, 21) \o Parameter_export(parm) \o <<NL>> >>
              ELSE [i \in 1..Len(parm.sub) |->
                       ljust(key, 21) \o Parameter_export(parm.sub[i].val) \o <<NL>>])
             \o Strict(export_header, Tail(header))

\* TimeSeries.export_time_series()
export_time_series(time_series) ==
    [i \in 1..Len(time_series) |->
        <<" ">> \o FormatE(time_series[i].v[1], 7, "e")
        \o <<" ">> \o FormatE(time_series[i].v[2], 7, "e")
        \o <<" ">> \o FormatE(time_series[i].v[3], 7, "e") \o <<NL>>]

\* export_header raises (AttributeError) on an entry that holds None
export_header_ok(header) ==
    \A i \in 1..Len(header) :
        header[i].key # K_parameter => header[i].val.type \in {"str", "num"}

\* TimeSeries.export()
TimeSeries_export(block) ==
    export_header(block.header) \o export_time_series(block.time_series)

\* TimeSeriesFile.export(): ok = FALSE when it raises
RECURSIVE export_blocks(_)
export_blocks(d) ==
    IF d = <<>> THEN <<>>
    ELSE TimeSeries_export(Head(d)) \o Strict(export_blocks, Tail(d))

TimeSeriesFile_export(d) ==
    IF \A i \in 1..Len(d) : export_header_ok(d[i].header)
    THEN [ok |-> TRUE, lines |-> export_blocks(d)]
    ELSE [ok |-> FALSE, lines |-> <<>>]

-----------------------------------------------------------------------------
(* Time-series files: the texts the model parses *)

\* a header line as Delft3D writes it: the keyword in 21 columns, the value
HeaderLine(key, value) == ljust(key, 21) \o value \o <<NL>>
Quote(s) == <<"'">> \o s \o <<"'">>
\* a parameter line: the label quoted, the unit right-justified in 33 columns
ParameterLine(label, unit) ==
    ljust(K_parameter, 21) \o Quote(label)
    \o rjust(<<"u", "n", "i", "t", " ", "'", "[">> \o unit \o <<"]", "'">>, 33) \o <<NL>>

K_location == <<"l", "o", "c", "a", "t", "i", "o", "n">>
K_contents == <<"c", "o", "n", "t", "e", "n", "t", "s">>
L_time     == <<"t", "i", "m", "e">>
L_end_A    == <<"f", "l", "u", "x", "/", "d", "i", "s", "c", "h", "a", "r", "g", "e", " ", " ", "(", "q", ")", " ", " ", "e", "n", "d", " ", "A">>
L_end_B    == <<"f", "l", "u", "x", "/", "d", "i", "s", "c", "h", "a", "r", "g", "e", " ", " ", "(", "q", ")", " ", " ", "e", "n", "d", " ", "B">>

\* the header of a block: table name, location, reference time, the three
\* parameters, the number of records
BlockHeader(name, location, reference, records) ==
    << HeaderLine(K_table_name, Quote(name)),
       HeaderLine(K_contents, Quote(ljust(<<"U", "n", "i", "f", "o", "r", "m">>, 20))),
       HeaderLine(K_location, Quote(location)),
       HeaderLine(K_reference_time, reference),
       ParameterLine(ljust(L_time, 20), <<"m", "i", "n">>),
       ParameterLine(L_end_A, <<"m", "3", "/", "s">>),
       ParameterLine(L_end_B, <<"m", "3", "/", "s">>),
       HeaderLine(K_records_in_table, records) >>

\* data rows in the layout of export_time_series
Row_0    == <<" ", "0", ".", "0", "0", "0", "0", "0", "0", "0", "e", "+", "0", "0", " ", "1", ".", "0", "0", "0", "0", "0", "0", "0", "e", "+", "0", "2", " ", "2", ".", "0", "0", "0", "0", "0", "0", "0", "e", "+", "0", "2", "\n">>
Row_1440 == <<" ", "1", ".", "4", "4", "0", "0", "0", "0", "0", "e", "+", "0", "3", " ", "1", ".", "5", "0", "0", "0", "0", "0", "0", "e", "+", "0", "2", " ", "-", "2", ".", "5", "0", "0", "0", "0", "0", "0", "e", "+", "0", "2", "\n">>
Row_2880 == <<" ", "2", ".", "8", "8", "0", "0", "0", "0", "0", "e", "+", "0", "3", " ", "0", ".", "0", "0", "0", "0", "0", "0", "0", "e", "+", "0", "0", " ", "1", ".", "2", "3", "4", "5", "6", "7", "8", "e", "-", "0", "3", "\n">>

Name_1 == <<"B", "o", "u", "n", "d", "a", "r", "y", " ", "S", "e", "c", "t", "i", "o", "n", " ", ":", " ", "1">>
Name_2 == <<"B", "o", "u", "n", "d", "a", "r", "y", " ", "S", "e", "c", "t", "i", "o", "n", " ", ":", " ", "2">>
Loc_North == ljust(<<"N", "o", "r", "t", "h">>, 20)
Loc_Range == ljust(<<"(", "2", ",", "2", "4", "6", ")", ".", ".", "(", "7", ",", "2", "4", "6", ")">>, 20)
Ref_20200315 == <<"2", "0", "2", "0", "0", "3", "1", "5">>

\* the files of the editing model: a block of two rows, a block of one row
EditFile_1 ==
    BlockHeader(Name_1, Loc_North, Ref_20200315, <<"2">>) \o <<Row_0, Row_1440>>
EditFile_2 ==
    BlockHeader(Name_2, Loc_Range, Ref_20200315, <<"1">>) \o <<Row_2880>>
EditFiles == {EditFile_1, EditFile_2}

-----------------------------------------------------------------------------
(* The arguments the model passes to set_header and set_time_series *)

K_nokey   == <<"n", "o", "-", "s", "u", "c", "h", "-", "f", "i", "e", "l", "d">>
L_nolabel == <<"n", "o", " ", "s", "u", "c", "h", " ", "l", "a", "b", "e", "l">>
V_South   == <<"S", "o", "u", "t", "h">>
V_West    == <<"W", "e", "s", "t">>
V_hour    == <<"h", "o", "u", "r">>
V_five    == <<"5">>
V_relative == <<"r", "e", "l", "a", "t", "i", "v", "e", " ", "t", "i", "m", "e">>
\* a location of more than 20 characters
V_long    == <<"(", "2", ",", "2", "4", "6", ")", ".", ".", "(", "7", ",", "2", "4", "6", ")", " ", "u", "p", "s", "t", "r", "e", "a", "m">>

ParameterItem(sub) == [key |-> K_parameter, val |-> <<>>, sub |-> sub]
Label(label, val) == [key |-> label, val |-> val]

\* the calls of set_header: the dict and the flag unit.  Two of them fail
\* on their second entry, a field and a parameter label that no header has.
HeaderCalls ==
    { [items |-> <<Item(K_location, V_South)>>, unit |-> FALSE],
      [items |-> <<Item(K_records_in_table, V_five)>>, unit |-> FALSE],
      [items |-> <<Item(K_location, V_West), Item(K_nokey, V_South)>>, unit |-> FALSE],
      [items |-> <<ParameterItem(<<Label(L_time, V_hour)>>)>>, unit |-> TRUE],
      [items |-> <<ParameterItem(<<Label(L_time, V_hour), Label(L_nolabel, V_hour)>>)>>,
       unit  |-> FALSE],
      [items |-> <<ParameterItem(<<Label(L_time, V_relative)>>)>>, unit |-> FALSE],
      [items |-> <<Item(K_location, V_long)>>, unit |-> FALSE] }

\* the reference times given to set_time_series, each with the date it
\* denotes written as YYYYMMDD (ymd = None: not a date, to_datetime raises)
RefTimes ==
    { [text |-> <<"2", "0", "2", "0", "-", "0", "4", "-", "1", "4", " ", "2", "3", ":", "5", "0">>,
       ymd  |-> <<"2", "0", "2", "0", "0", "4", "1", "4">>],
      [text |-> <<"2", "0", "2", "0", "0", "2", "2", "9">>,
       ymd  |-> <<"2", "0", "2", "0", "0", "2", "2", "9">>],
      [text |-> <<"2", "0", "2", "0", "-", "0", "4", "-", "3", "1">>, ymd |-> None] }

\* 2020-04-15 00:00
T_20200415 == days_from_civil(2020, 4, 15) * MinutesPerDay
Value_100 == FromInt(100)
Value_200 == FromInt(200)
\* at most MaxRows timestamps, ten minutes apart
MaxRows == 2
Stamps(n) == {T_20200415 + 10 * i : i \in 0..(n - 1)}
\* the series over a set of timestamps, every value v
SeriesOf(S, v) ==
    Strict(LAMBDA idx : [i \in 1..Len(idx) |-> [index |-> idx[i], val |-> v]], Sorted(S))
Series1 == {SeriesOf(Stamps(n), Value_100) : n \in 0..MaxRows}
Series2 == {SeriesOf(Stamps(1), Value_200)}

-----------------------------------------------------------------------------
(* The state of the codecs the specification at hand does not use *)

NoCall == [op |-> "none", raised |-> FALSE, num |-> 0, arg |-> <<>>, unit |-> FALSE]
NoOut  == [ok |-> TRUE, lines |-> <<>>]

TS_Idle  == ts_file = <<>> /\ data = <<>> /\ ts_out = NoOut
Mdf_Idle == mdf_file = <<>> /\ mdf_data = <<>> /\ mdf_out = NoOut
Grd_Idle == grd_text = <<>> /\ grd = <<>> /\ grd_out = NoOut
Dep_Idle == dep_text = <<>> /\ dep = <<>> /\ dep_out = NoOut

\* no sim_unit call was made, and no file of a run is in the directory
NoSim == [pc |-> "idle", run_id |-> 0, netcdf |-> FALSE, disp |-> FALSE, files |-> {}]
Sim_Idle == sim = NoSim

-----------------------------------------------------------------------------
(* The editing of a parsed time-series file *)

\* TimeSeriesFile(filename) for a file of EditFiles
TS_Init ==
    /\ ts_file \in EditFiles
    /\ data = load_file(ts_file).data
    /\ ts_out = NoOut
    /\ last = NoCall /\ Sim_Idle
    /\ Mdf_Idle /\ Grd_Idle /\ Dep_Idle

\* TimeSeriesFile.set_header(num, data, unit)
TS_SetHeader ==
    \E num \in 0..(Len(data) - 1), call \in HeaderCalls :
        \E r \in {set_header(data[num + 1], call.items, call.unit)} :
            /\ data' = [data EXCEPT ![num + 1] = r.block]
            /\ ts_out' = NoOut
            /\ last' = [op |-> "set_header", raised |-> ~r.ok, num |-> num,
                        arg |-> call.items, unit |-> call.unit]
            /\ UNCHANGED <<sim, ts_file, mdf_vars, grd_vars, dep_vars>>

\* TimeSeriesFile.set_time_series(num, reference_time, data1, data2)
TS_SetTimeSeries ==
    \E num \in 0..(Len(data) - 1), ref \in RefTimes, data1 \in Series1, data2 \in Series2 :
        \E r \in {set_time_series(data[num + 1], ref.text, data1, data2)} :
            /\ data' = [data EXCEPT ![num + 1] = r.block]
            /\ ts_out' = NoOut
            /\ last' = [op |-> "set_time_series", raised |-> ~r.ok, num |-> num,
                        arg |-> <<ref, data1, data2>>, unit |-> FALSE]
            /\ UNCHANGED <<sim, ts_file, mdf_vars, grd_vars, dep_vars>>

\* TimeSeriesFile.export(); ts_out is what the last call returned when that
\* call was export()
TS_Export ==
    \E out \in {TimeSeriesFile_export(data)} :
    /\ ts_out' = out
    /\ last' = [op |-> "export", raised |-> ~out.ok, num |-> 0,
                arg |-> <<>>, unit |-> FALSE]
    /\ UNCHANGED <<sim, ts_file, data, mdf_vars, grd_vars, dep_vars>>

TS_Next == TS_SetHeader \/ TS_SetTimeSeries \/ TS_Export

Spec == TS_Init /\ [][TS_Next]_vars

-----------------------------------------------------------------------------
(* Claims on the editing of a time-series file *)

RecordsInTable(block) == Get(block.header, K_records_in_table).value
ReferenceTime(block)  == Get(block.header, K_reference_time).value
\* every block's 'records-in-table' is the number of rows of its table
RecordsMatch ==
    \A k \in 1..Len(data) : RecordsInTable(data[k]) = str(Len(data[k].time_series))
\* the last call was set_header with 'records-in-table' among its fields
SetsRecords ==
    /\ last.op = "set_header"
    /\ \E i \in 1..Len(last.arg) : last.arg[i].key = K_records_in_table

\* C1, as the spec states it: in every state reached by set_header and
\* set_time_series calls, each block's records-in-table equals the number
\* of rows of the block's table.
C1_RecordsAlwaysMatch == RecordsMatch

\* C1, amended: records-in-table equals the number of rows after parsing,
\* and every call keeps the equality except a set_header call that names
\* records-in-table, which stores the caller's value as it is.
C1_RecordsKeptUnlessSet ==
    RecordsMatch /\ [][(RecordsMatch /\ ~SetsRecords') => RecordsMatch']_vars

\* set_time_series put a table of one row in the place of one of two rows,
\* and the count followed
C1_Witness ==
    /\ ts_file = EditFile_1
    /\ last.op = "set_time_series" /\ ~last.raised
    /\ Len(data[last.num + 1].time_series) = 1
    /\ RecordsMatch

\* C2: right after set_time_series returns, the block's records-in-table
\* is str(number of rows of the new table), the rows being the timestamps
\* of the two series, and its reference-time is the new reference time
\* written as YYYYMMDD.
C2_HeaderFollowsTable ==
    (last.op = "set_time_series" /\ ~last.raised) =>
        /\ RecordsInTable(data[last.num + 1]) = str(Len(data[last.num + 1].time_series))
        /\ {data[last.num + 1].time_series[i].index :
                i \in 1..Len(data[last.num + 1].time_series)}
           = Indexes(last.arg[2]) \cup Indexes(last.arg[3])
        /\ ReferenceTime(data[last.num + 1]) = last.arg[1].ymd

\* set_time_series gave a block of one row two rows and a reference time
\* that came with a time of day
C2_Witness ==
    /\ ts_file = EditFile_2
    /\ last.op = "set_time_series" /\ ~last.raised
    /\ Len(last.arg[1].text) > Len(last.arg[1].ymd) + 2
    /\ Len(data[last.num + 1].time_series) = 2
    /\ RecordsInTable(data[last.num + 1]) = <<"2">>

\* C4: a set_header call that fails leaves every header field as it was
\* before the call.
C4_FailedSetHeaderChangesNothing ==
    [][(last'.op = "set_header" /\ last'.raised) => data' = data]_vars

\* a set_header call failed on its second field
C4_Witness ==
    /\ last.op = "set_header" /\ last.raised
    /\ Len(last.arg) = 2

-----------------------------------------------------------------------------
(* The round trip of a time-series file: parse, then export unmodified *)

Loc_Riv      == ljust(<<"R", "i", "v", ".">>, 20)
Ref_20191231 == <<"2", "0", "1", "9", "1", "2", "3", "1">>
\* a data row as Delft3D itself writes it: two blanks, three exponent digits
Row_native   == <<" ", "0", ".", "0", "0", "0", "0", "0", "0", "0", "e", "+", "0", "0", "0", " ", " ", "1", ".", "0", "0", "0", "0", "0", "0", "0", "e", "+", "0", "0", "2", " ", " ", "2", ".", "0", "0", "0", "0", "0", "0", "0", "e", "+", "0", "0", "2", "\n">>

\* the rows of a block: one, two or three rows in the layout of
\* export_time_series, or one row in Delft3D's own layout
RowChoices ==
    { <<Row_0>>, <<Row_2880>>, <<Row_0, Row_1440>>, <<Row_0, Row_1440, Row_2880>>,
      <<Row_native>> }

\* a well-formed block: the header, its count the number of rows, the rows
Block(name, location, reference, rows) ==
    BlockHeader(name, location, reference, str(Len(rows))) \o rows

\* well-formed files of one block and of two blocks
RoundTripFiles ==
    { Block(Name_1, loc, ref, rows) :
        loc \in {Loc_North, Loc_Range, Loc_Riv}, ref \in {Ref_20200315, Ref_20191231},
        rows \in RowChoices }
    \cup
    { Block(Name_1, loc, Ref_20200315, rows) \o Block(Name_2, Loc_Range, Ref_20191231, rows2) :
        loc \in {Loc_North, Loc_Riv}, rows \in RowChoices, rows2 \in RowChoices }

\* TimeSeriesFile(filename) for a file of RoundTripFiles
RT_Init ==
    /\ ts_file \in RoundTripFiles
    /\ load_file(ts_file).ok
    /\ data = load_file(ts_file).data
    /\ ts_out = NoOut
    /\ last = NoCall /\ Sim_Idle
    /\ Mdf_Idle /\ Grd_Idle /\ Dep_Idle

RT_Next == TS_Export

SpecTimeSeriesRoundTrip == RT_Init /\ [][RT_Next]_vars

\* C5: export() on the unmodified parsed document returns the lines of the
\* input file, line for line.
C5_RoundTrip ==
    last.op = "export" => ts_out = [ok |-> TRUE, lines |-> ts_file]

\* export() returned as many lines as the file has, and a header line among
\* them differs from the file's
C5_Witness ==
    /\ last.op = "export" /\ ts_out.ok
    /\ Len(ts_out.lines) = Len(ts_file)
    /\ \E i \in 1..Len(ts_file) :
           /\ ts_out.lines[i] # ts_file[i]
           /\ StartsAt(ts_file[i], 1, K_location)

-----------------------------------------------------------------------------
(* MdfFile.py: the values of the parameter store *)

\* What MdfFile.data holds under a name.  t is the Python type: "float",
\* "int" (set_parm stores one under 'Runtxt' when it is given one),
\* "ndarray" (dim the number of axes, a the elements in order), "list"
\* (a the lines of a multiple-line character parameter) or "str" (s the
\* text); "other" stands where there is no value.  An element of an array
\* is a float, or [k |-> "str"] for an element that is no number.
MdfFloat(v)      == [t |-> "float", dim |-> 0, v |-> v, a |-> <<>>, s |-> <<>>]
MdfArray(dim, a) == [t |-> "ndarray", dim |-> dim, v |-> NaN, a |-> a, s |-> <<>>]
MdfList(a)       == [t |-> "list", dim |-> 0, v |-> NaN, a |-> a, s |-> <<>>]
MdfStr(s)        == [t |-> "str", dim |-> 0, v |-> NaN, a |-> <<>>, s |-> s]
MdfInt(n)        == [t |-> "int", dim |-> 0, v |-> FromInt(n), a |-> <<>>, s |-> <<>>]
MdfOther(s)      == [t |-> "other", dim |-> 0, v |-> NaN, a |-> <<>>, s |-> s]
NotANumber       == [k |-> "str", neg |-> FALSE, d |-> <<>>, e |-> 0]

\* A value a caller gives to set_parm: a Python int (t = "int", n), a str
\* (t = "str", s), a list of ints (t = "ints", a) or of strs (t = "strs", a)
PyInt(n)  == [t |-> "int", n |-> n, s |-> <<>>, a |-> <<>>]
PyStr(s)  == [t |-> "str", n |-> 0, s |-> s, a |-> <<>>]
PyInts(a) == [t |-> "ints", n |-> 0, s |-> <<>>, a |-> a]
PyStrs(a) == [t |-> "strs", n |-> 0, s |-> <<>>, a |-> a]

K_Commnt == <<"C", "o", "m", "m", "n", "t">>
K_Runtxt == <<"R", "u", "n", "t", "x", "t">>
\* int_key of export()
int_key == {<<"M", "N", "K", "m", "a", "x">>, <<"K", "t", "e", "m", "p">>, <<"I", "v", "a", "p", "o", "p">>, <<"I", "r", "o", "v">>, <<"I", "t", "e", "r">>}

\* [\w .#+-:\[\]] of the regular expression of load_file; +-: is the range
\* of the characters from "+" to ":"
MdfValueClass ==
    Word \cup {" ", ".", "#", "[", "]", "+", ",", "-", "/", ":"}

\* re.search(r'^([\w]+)\s*=\s*([\w .#+-:\[\]]*)$', line)
mdf_parm_re(line) ==
    Strict(LAMBDA w :
        Strict(LAMBDA p :
            IF w < 1 \/ p > Len(line) \/ line[p] # "="
            THEN [ok |-> FALSE, g1 |-> <<>>, g2 |-> <<>>]
            ELSE Strict(LAMBDA r :
                     Strict(LAMBDA end :
                         IF end = Len(line) + 1 \/ (end = Len(line) /\ line[end] = NL)
                         THEN [ok |-> TRUE, g1 |-> SubSeq(line, 1, w),
                               g2 |-> SubSeq(line, r, end - 1)]
                         ELSE [ok |-> FALSE, g1 |-> <<>>, g2 |-> <<>>],
                         r + RunLen(line, r, MdfValueClass)),
                     p + 1 + RunLen(line, p + 1, Space)),
            1 + w + RunLen(line, 1 + w, Space)),
        RunLen(line, 1, Word))

\* re.search(r'^\s+(.*)$', line): the group is the line after its leading
\* whitespace, without the newline that ends it
mdf_value_re(line) ==
    Strict(LAMBDA s :
        IF s < 1 THEN [ok |-> FALSE, g1 |-> <<>>]
        ELSE IF s = Len(line) THEN [ok |-> TRUE, g1 |-> <<>>]
        ELSE IF HasChar(SubSeq(line, s + 1, Len(line) - 1), NL)
        THEN [ok |-> FALSE, g1 |-> <<>>]
        ELSE [ok |-> TRUE,
              g1 |-> SubSeq(line, s + 1,
                            IF line[Len(line)] = NL THEN Len(line) - 1 ELSE Len(line))],
        RunLen(line, 1, Space))

\* float(s) for a text: surrounding whitespace is allowed
float_of_text(s) ==
    Strict(LAMBDA toks : IF Len(toks) = 1 THEN ParseFloat(toks[1])
                         ELSE [ok |-> FALSE, v |-> NaN],
           split(s))

\* repr(v), which is str(v), of a float: the shortest decimal, positional
\* for exponents from -4 to 15
repr_float(v) ==
    LET digs(d) == [i \in 1..Len(d) |-> DigitChar(d[i])]
        sign    == IF v.neg THEN <<"-">> ELSE <<>>
    IN  IF v.k # "num" THEN <<"n", "a", "n">>
        ELSE IF v.d = <<>> THEN sign \o <<"0", ".", "0">>
        ELSE IF v.e >= 16 \/ v.e < -4
        THEN sign \o <<DigitChar(v.d[1])>>
             \o (IF Len(v.d) > 1 THEN <<".">> \o digs(Tail(v.d)) ELSE <<>>)
             \o <<"e", IF v.e < 0 THEN "-" ELSE "+">>
             \o Pad0(IF v.e < 0 THEN -v.e ELSE v.e, 2)
        ELSE IF v.e < 0
        THEN sign \o <<"0", ".">> \o Rep("0", -v.e - 1) \o digs(v.d)
        ELSE sign \o digs(SubSeq(v.d \o Rep(0, v.e + 1 - Len(v.d)), 1, v.e + 1))
             \o <<".">>
             \o (IF Len(v.d) > v.e + 1 THEN digs(SubSeq(v.d, v.e + 2, Len(v.d)))
                 ELSE <<"0">>)
\* What the body of the loop of load_file computes from a line alone: the
\* two searches, the floats of a number line, the float of a continuation
\* line
MdfLineParse(line) ==
    Strict(LAMBDA matches :
        IF matches.ok
        THEN [matches |-> TRUE, g1 |-> matches.g1, g2 |-> matches.g2, cont |-> FALSE,
              hash |-> HasChar(line, "#"),
              num |-> Strict(LAMBDA toks : [i \in 1..Len(toks) |-> ParseFloat(toks[i])],
                             split(matches.g2))]
        ELSE Strict(LAMBDA value :
                 [matches |-> FALSE, g1 |-> <<>>, g2 |-> value.g1, cont |-> value.ok,
                  hash |-> HasChar(line, "#"),
                  num |-> <<float_of_text(value.g1)>>],
                 mdf_value_re(line)),
        mdf_parm_re(line))

\* the value of a single-line parameter, from matches[2]
mdf_single(parsed) ==
    IF HasChar(parsed.g2, "#") /\ ~HasChar(parsed.g2, "[")
    THEN \* character parameter 1
         [ok |-> TRUE, val |-> MdfStr(remove(rstrip(parsed.g2, " "), "#"))]
    ELSE IF HasChar(parsed.g2, "[")
    THEN \* character parameter 2
         [ok |-> TRUE, val |-> MdfStr(parsed.g2)]
    ELSE IF parsed.num = <<>> \/ \E i \in 1..Len(parsed.num) : ~parsed.num[i].ok
    THEN [ok |-> FALSE, val |-> MdfOther(<<>>)]
    ELSE IF Len(parsed.num) > 1
    THEN [ok |-> TRUE, val |-> MdfArray(1, [i \in 1..Len(parsed.num) |-> parsed.num[i].v])]
    ELSE [ok |-> TRUE, val |-> MdfFloat(parsed.num[1].v)]

\* the elements of np.array(parm).reshape(-1, 1), parm = mdf_dict.get(name)
mdf_column(has, parm) ==
    IF ~has THEN <<NotANumber>>
    ELSE IF parm.t = "float" THEN <<parm.v>>
    ELSE IF parm.t = "ndarray" THEN parm.a
    ELSE IF parm.t = "list" THEN [i \in 1..Len(parm.a) |-> NotANumber]
    ELSE <<NotANumber>>

\* the value of a multiple-line parameter after one more line.  In a list
\* a float stands as the text str() gives and None as the text None; the
\* text of an array in a list is not modelled and stands as None too.
mdf_multiple(has, parm, parsed) ==
    IF ~parsed.cont THEN [ok |-> FALSE, val |-> MdfOther(<<>>)]
    ELSE IF parsed.hash
    THEN \* multiple-line character parameter
         LET first == IF ~has THEN <<<<"N", "o", "n", "e">>>>
                      ELSE IF parm.t = "list" THEN parm.a
                      ELSE IF parm.t = "float" THEN <<repr_float(parm.v)>>
                      ELSE IF parm.t = "str" THEN <<parm.s>>
                      ELSE <<<<"N", "o", "n", "e">>>>
         IN  [ok |-> TRUE, val |-> MdfList(Append(first, remove(parsed.g2, "#")))]
    ELSE \* multiple-line array parameter
         IF ~parsed.num[1].ok THEN [ok |-> FALSE, val |-> MdfOther(<<>>)]
         ELSE [ok |-> TRUE,
               val |-> MdfArray(2, Append(mdf_column(has, parm),
                                          IF has /\ parm.t \in {"float", "ndarray"}
                                          THEN parsed.num[1].v ELSE NotANumber))]

\* MdfFile.load_file: the loop over the lines, parsed[i] what line i gives;
\* acc holds mdf_dict and parm_name (None before the first parameter)
RECURSIVE mdf_load_loop(_, _, _)
mdf_load_loop(parsed, i, acc) ==
    LET Continue(a) == mdf_load_loop(parsed, i + 1, a)
        Store(name, r) ==
            IF ~r.ok THEN [ok |-> FALSE, data |-> <<>>]
            ELSE Strict(Continue, [mdf_dict  |-> Put(acc.mdf_dict, name, r.val),
                                   parm_name |-> name])
    IN  IF i > Len(parsed) THEN [ok |-> TRUE, data |-> acc.mdf_dict]
        ELSE IF parsed[i].matches /\ parsed[i].g1 # K_Commnt
        THEN Store(parsed[i].g1, mdf_single(parsed[i]))
        ELSE IF ~parsed[i].matches
        THEN Store(acc.parm_name,
                   mdf_multiple(HasKey(acc.mdf_dict, acc.parm_name),
                                IF HasKey(acc.mdf_dict, acc.parm_name)
                                THEN Get(acc.mdf_dict, acc.parm_name)
                                ELSE MdfOther(<<>>),
                                parsed[i]))
        ELSE \* a Commnt line: ignored
             Continue(acc)

\* MdfFile.load_file() on the lines of the file; ok = FALSE when it raises
mdf_load_file(lines) ==
    Strict(LAMBDA parsed :
               mdf_load_loop(parsed, 1, [mdf_dict |-> <<>>, parm_name |-> None]),
           [i \in 1..Len(lines) |-> MdfLineParse(lines[i])])

\* float(value) of set_parm; ok = FALSE is ValueError or TypeError
py_float(value) ==
    IF value.t = "int" THEN [ok |-> TRUE, v |-> FromInt(value.n)]
    ELSE IF value.t = "str" THEN float_of_text(value.s)
    ELSE [ok |-> FALSE, v |-> NaN]

\* the text of a list: "[" + ", ".join(items) + "]"
RECURSIVE py_join(_)
py_join(items) ==
    IF items = <<>> THEN <<>>
    ELSE IF Len(items) = 1 THEN items[1]
    ELSE items[1] \o <<",", " ">> \o Strict(py_join, Tail(items))

\* str(value) of set_parm
py_str(value) ==
    IF value.t = "int" THEN str(value.n)
    ELSE IF value.t = "str" THEN value.s
    ELSE IF value.t = "ints"
    THEN <<"[">> \o py_join([i \in 1..Len(value.a) |-> str(value.a[i])]) \o <<"]">>
    ELSE <<"[">> \o py_join([i \in 1..Len(value.a) |-> Quote(value.a[i])]) \o <<"]">>

\* np.array(value): the number of axes and the elements
np_array(value) ==
    IF value.t = "int" THEN MdfArray(0, <<FromInt(value.n)>>)
    ELSE IF value.t = "str" THEN MdfArray(0, <<NotANumber>>)
    ELSE IF value.t = "ints"
    THEN MdfArray(1, [i \in 1..Len(value.a) |-> FromInt(value.a[i])])
    ELSE MdfArray(1, [i \in 1..Len(value.a) |-> NotANumber])

\* the value as set_parm stores it under 'Runtxt': the object itself (a
\* list of ints stands as the list of their texts)
py_object(value) ==
    IF value.t = "str" THEN MdfStr(value.s)
    ELSE IF value.t = "strs" THEN MdfList(value.a)
    ELSE IF value.t = "ints" THEN MdfList([i \in 1..Len(value.a) |-> str(value.a[i])])
    ELSE MdfInt(value.n)

\* self.data[key] = ... on a name the store holds
mdf_assign_moved(d, key, val) ==
    SelectSeq(d, LAMBDA e : e.key # key) \o <<[key |-> key, val |-> val]>>

\* self.data[key] = ...: the name keeps its place
mdf_assign(d, key, val) == Put(d, key, val)

\* a body of the loop that stores str(value) whatever the entry holds
set_parm_key_str(d, key, value) ==
    IF ~HasKey(d, key) THEN [ok |-> FALSE, d |-> d]
    ELSE [ok |-> TRUE, d |-> mdf_assign(d, key, MdfStr(py_str(value)))]

\* the body of the loop of set_parm for one key; ok = FALSE when it raises
set_parm_key(d, key, value) ==
    IF ~HasKey(d, key) THEN [ok |-> FALSE, d |-> d]
    ELSE Strict(LAMBDA cur :
        IF cur.t \in {"float", "int"}
        THEN \* single number parameter
             Strict(LAMBDA f : IF ~f.ok THEN [ok |-> FALSE, d |-> d]
                               ELSE [ok |-> TRUE, d |-> mdf_assign(d, key, MdfFloat(f.v))],
                    py_float(value))
        ELSE IF cur.t = "ndarray"
        THEN IF cur.dim = 1
             THEN [ok |-> TRUE, d |-> mdf_assign(d, key, np_array(value))]
             ELSE [ok |-> TRUE, d |-> mdf_assign(d, key, MdfArray(2, np_array(value).a))]
        ELSE IF key = K_Runtxt
        THEN [ok |-> TRUE, d |-> mdf_assign(d, key, py_object(value))]
        ELSE [ok |-> TRUE, d |-> mdf_assign(d, key, MdfStr(py_str(value)))],
        Get(d, key))

\* MdfFile.set_parm(data): the loop over the caller's dict, a sequence of
\* [key, val].  It assigns key by key, so what it did before an exception
\* stays.
RECURSIVE set_parm(_, _)
set_parm(d, items) ==
    IF items = <<>> THEN [ok |-> TRUE, d |-> d]
    ELSE Strict(LAMBDA r :
             IF ~r.ok THEN r
             ELSE Strict(LAMBDA a : set_parm(a.d, a.items), [d |-> r.d, items |-> Tail(items)]),
             set_parm_key(d, Head(items).key, Head(items).val))

\* every number written as "%.7e" % v
mdf_number_e(key, v) == FormatE(v, 7, "e")

\* "%d" % v or "%.7e" % v, as export() chooses by the name
mdf_number(key, v) == IF key \in int_key THEN FormatD(v) ELSE FormatE(v, 7, "e")

\* the lines export() writes for one entry; ok = FALSE when it raises
mdf_export_entry(key, content) ==
    LET name    == ljust(IF key = None THEN <<"N", "o", "n", "e">> ELSE key, 6) \o <<" ", "=">>
        numeric == \A i \in 1..Len(content.a) : content.a[i].k # "str"
    IN  IF content.t = "ndarray" /\ content.dim > 1
        THEN \* multiple-line array parameter
             IF content.a = <<>> \/ ~numeric THEN [ok |-> FALSE, lines |-> <<>>]
             ELSE [ok |-> TRUE,
                   lines |-> [i \in 1..Len(content.a) |->
                                 (IF i = 1 THEN name \o <<" ">> ELSE Rep(" ", 10))
                                 \o mdf_number(key, content.a[i]) \o <<NL>>]]
        ELSE IF content.t = "ndarray" /\ content.dim = 1
        THEN \* array parameter
             IF ~numeric THEN [ok |-> FALSE, lines |-> <<>>]
             ELSE [ok |-> TRUE,
                   lines |-> <<name
                               \o Flatten([i \in 1..Len(content.a) |->
                                              <<" ">> \o mdf_number(key, content.a[i])])
                               \o <<NL>> >>]
        ELSE IF content.t = "list"
        THEN \* multiple-line character parameter
             IF content.a = <<>> THEN [ok |-> FALSE, lines |-> <<>>]
             ELSE [ok |-> TRUE,
                   lines |-> [i \in 1..Len(content.a) |->
                                 (IF i = 1 THEN name \o <<" ">> ELSE Rep(" ", 9))
                                 \o <<"#">> \o content.a[i] \o <<"#", NL>>]]
        ELSE IF content.t = "float"
        THEN [ok |-> TRUE, lines |-> <<name \o <<" ">> \o mdf_number(key, content.v) \o <<NL>> >>]
        ELSE IF content.t = "str" /\ ~HasChar(content.s, "[")
        THEN [ok |-> TRUE, lines |-> <<name \o <<" ", "#">> \o content.s \o <<"#", NL>> >>]
        ELSE IF content.t = "str"
        THEN [ok |-> TRUE, lines |-> <<name \o <<" ">> \o content.s \o <<NL>> >>]
        ELSE \* raise ValueError("invalid key")
             [ok |-> FALSE, lines |-> <<>>]

\* MdfFile.export(); ok = FALSE when it raises
mdf_export(d) ==
    Strict(LAMBDA entries :
               IF \E i \in 1..Len(entries) : ~entries[i].ok THEN [ok |-> FALSE, lines |-> <<>>]
               ELSE [ok |-> TRUE,
                     lines |-> Flatten([i \in 1..Len(entries) |-> entries[i].lines])],
           [i \in 1..Len(d) |-> mdf_export_entry(d[i].key, d[i].val)])

-----------------------------------------------------------------------------
(* Parameter files: the texts and the calls of the model *)

\* groups of lines, each the lines of one parameter as export() writes them
G_Ident  == << <<"I", "d", "e", "n", "t", " ", " ", "=", " ", "#", "D", "e", "l", "f", "t", "3", "D", "-", "F", "L", "O", "W", " ", "3", ".", "5", "9", "#", "\n">> >>
G_Commnt == << <<"C", "o", "m", "m", "n", "t", " ", "=", " ", " ", " ", " ", " ", " ", " ", " ", " ", " ", " ", " ", " ", " ", " ", " ", " ", " ", "\n">> >>
G_Runtxt == << <<"R", "u", "n", "t", "x", "t", " ", "=", " ", "#", "r", "i", "v", "e", "r", " ", "r", "u", "n", "#", "\n">>, <<" ", " ", " ", " ", " ", " ", " ", " ", " ", "#", "t", "e", "s", "t", " ", "1", "#", "\n">> >>
G_Filcco == << <<"F", "i", "l", "c", "c", "o", " ", "=", " ", "#", "r", "i", "v", "e", "r", ".", "g", "r", "d", "#", "\n">> >>
G_MNKmax == << <<"M", "N", "K", "m", "a", "x", " ", "=", " ", "2", "0", " ", "8", " ", "1", "\n">> >>
G_Thick  == << <<"T", "h", "i", "c", "k", " ", " ", "=", " ", "6", ".", "0", "0", "0", "0", "0", "0", "0", "e", "+", "0", "1", "\n">>, <<" ", " ", " ", " ", " ", " ", " ", " ", " ", " ", "4", ".", "0", "0", "0", "0", "0", "0", "0", "e", "+", "0", "1", "\n">> >>
G_Dt     == << <<"D", "t", " ", " ", " ", " ", " ", "=", " ", "5", ".", "0", "0", "0", "0", "0", "0", "0", "e", "-", "0", "1", "\n">> >>
G_Dt_2   == << <<"D", "t", " ", " ", " ", " ", " ", "=", " ", "2", ".", "0", "0", "0", "0", "0", "0", "0", "e", "+", "0", "0", "\n">> >>
G_Ktemp  == << <<"K", "t", "e", "m", "p", " ", " ", "=", " ", "0", "\n">> >>
G_Wstres == << <<"W", "s", "t", "r", "e", "s", " ", "=", " ", "[", "0", ".", "0", "0", "1", " ", "0", ".", "0", "0", "2", "]", "\n">> >>
\* a parameter written as a user writes it
G_Dt_plain == << <<"D", "t", " ", " ", " ", " ", " ", "=", " ", "0", ".", "5", "\n">> >>

MdfGroups == <<G_Ident, G_Commnt, G_Dt_2, G_Runtxt, G_MNKmax, G_Thick, G_Dt,
               G_Wstres, G_Dt_plain>>

\* the file of the groups picked, in the order of MdfGroups
MdfFileOf(picked) ==
    Flatten([i \in DOMAIN MdfGroups |-> IF i \in picked THEN MdfGroups[i] ELSE <<>>])

MdfRoundTripFiles == {MdfFileOf(picked) : picked \in SUBSET DOMAIN MdfGroups}

MdfEditFile_1 ==
    G_Ident \o G_Commnt \o G_Runtxt \o G_Filcco \o G_MNKmax \o G_Thick \o G_Dt
    \o G_Ktemp \o G_Wstres
\* a file that names Dt twice
MdfEditFile_2 == G_Dt_2 \o G_Commnt \o G_Filcco \o G_Runtxt \o G_Dt
\* a file that holds MNKmax on three lines
G_MNKmax_lines ==
    << <<"M", "N", "K", "m", "a", "x", " ", "=", " ", "2", "0", "\n">>,
       Rep(" ", 10) \o <<"8", "\n">>,
       Rep(" ", 10) \o <<"1", "\n">> >>
MdfEditFile_3 == G_Ident \o G_MNKmax_lines \o G_Dt
MdfEditFiles == {MdfEditFile_1, MdfEditFile_2, MdfEditFile_3}

K_Dt     == <<"D", "t">>
K_Filcco == <<"F", "i", "l", "c", "c", "o">>
K_MNKmax == <<"M", "N", "K", "m", "a", "x">>
K_Thick  == <<"T", "h", "i", "c", "k">>
K_Nokey  == <<"N", "o", "k", "e", "y">>
ParmItem(key, val) == [key |-> key, val |-> val]

\* the dicts given to set_parm
ParmDicts ==
    { <<ParmItem(K_Dt, PyInt(1))>>,
      <<ParmItem(K_Filcco, PyStr(<<"n", "e", "w", ".", "g", "r", "d">>))>>,
      <<ParmItem(K_Dt, PyInt(2)), ParmItem(K_Nokey, PyInt(1))>>,
      <<ParmItem(K_Filcco, PyStr(<<"b", ".", "g", "r", "d">>)), ParmItem(K_Dt, PyStr(<<"f", "a", "s", "t">>))>>,
      <<ParmItem(K_Nokey, PyInt(1))>>,
      <<ParmItem(K_MNKmax, PyInts(<<1, 2, 3>>))>>,
      <<ParmItem(K_Thick, PyInts(<<50, 50>>))>>,
      <<ParmItem(K_Runtxt, PyStrs(<< <<"n", "e", "w", " ", "r", "u", "n">> >>))>>,
      <<ParmItem(K_Runtxt, PyInt(5))>> }

-----------------------------------------------------------------------------
(* The editing of a parsed parameter file *)

\* MdfFile(filename) for a file of MdfEditFiles
Mdf_Init ==
    /\ mdf_file \in MdfEditFiles
    /\ mdf_data = mdf_load_file(mdf_file).data
    /\ mdf_out = NoOut
    /\ last = NoCall /\ Sim_Idle
    /\ TS_Idle /\ Grd_Idle /\ Dep_Idle

\* MdfFile.set_parm(data)
Mdf_SetParm ==
    \E items \in ParmDicts :
        \E r \in {set_parm(mdf_data, items)} :
            /\ mdf_data' = r.d
            /\ mdf_out' = NoOut
            /\ last' = [op |-> "set_parm", raised |-> ~r.ok, num |-> 0,
                        arg |-> items, unit |-> FALSE]
            /\ UNCHANGED <<sim, mdf_file, ts_vars, grd_vars, dep_vars>>

\* MdfFile.export()
Mdf_Export ==
    \E out \in {mdf_export(mdf_data)} :
        /\ mdf_out' = out
        /\ last' = [op |-> "export", raised |-> ~out.ok, num |-> 0,
                    arg |-> <<>>, unit |-> FALSE]
        /\ UNCHANGED <<sim, mdf_file, mdf_data, ts_vars, grd_vars, dep_vars>>

Mdf_Next == Mdf_SetParm \/ Mdf_Export

SpecMdf == Mdf_Init /\ [][Mdf_Next]_vars

-----------------------------------------------------------------------------
(* Claims on the editing of a parameter file *)

\* C3: a set_parm call that fails leaves the parameter store exactly as it
\* was before the call: no key of the call has been changed.
C3_FailedSetParmChangesNothing ==
    [][(last'.op = "set_parm" /\ last'.raised) => mdf_data' = mdf_data]_vars

\* a set_parm call has failed on its second key, and the store holds the
\* value of its first key
C3_Witness ==
    /\ last.op = "set_parm" /\ last.raised
    /\ Len(last.arg) > 1
    /\ Get(mdf_data, last.arg[1].key) = MdfFloat(FromInt(last.arg[1].val.n))

\* the name a line of a parameter file begins with, read off the text
NameOfLine(line) ==
    SubSeq(line, 1, SetMin({i \in 1..Len(line) : line[i] \in {" ", "="}}) - 1)

\* the text begins a parameter the parser keeps
StartsParameter(line) == line[1] # " " /\ NameOfLine(line) # K_Commnt

\* a sequence without the later occurrences of its elements
RECURSIVE FirstOccurrences(_)
FirstOccurrences(s) ==
    IF s = <<>> THEN <<>>
    ELSE Strict(LAMBDA r : IF \E i \in 1..Len(r) : r[i] = s[Len(s)] THEN r
                           ELSE Append(r, s[Len(s)]),
                FirstOccurrences(SubSeq(s, 1, Len(s) - 1)))

\* the names of the parameters of a file, in the order of their first lines
FirstNames(file) ==
    Strict(LAMBDA starts : FirstOccurrences([i \in 1..Len(starts) |-> NameOfLine(starts[i])]),
           SelectSeq(file, StartsParameter))

\* C10: the store holds the names of the parameters of the parsed file in
\* the order in which they first appeared there, whatever set_parm calls
\* have been made, and export() emits the parameters in that order.
C10_OrderKept ==
    /\ Keys(mdf_data) = FirstNames(mdf_file)
    /\ (last.op = "export" /\ mdf_out.ok)
           => FirstNames(mdf_out.lines) = FirstNames(mdf_file)

\* export() has written a store that set_parm has changed, of a file that
\* names a parameter twice
C10_Witness ==
    /\ last.op = "export" /\ mdf_out.ok
    /\ mdf_data # mdf_load_file(mdf_file).data
    /\ Len(SelectSeq(mdf_file, StartsParameter)) > Len(FirstNames(mdf_file))
    /\ Len(FirstNames(mdf_file)) > 1

-----------------------------------------------------------------------------
(* The round trip of a parameter file *)

\* MdfFile(filename) for a file of MdfRoundTripFiles
MdfRT_Init ==
    /\ mdf_file \in MdfRoundTripFiles
    /\ mdf_load_file(mdf_file).ok
    /\ mdf_data = mdf_load_file(mdf_file).data
    /\ mdf_out = NoOut
    /\ last = NoCall /\ Sim_Idle
    /\ TS_Idle /\ Grd_Idle /\ Dep_Idle

MdfRT_Next == Mdf_Export

SpecMdfRoundTrip == MdfRT_Init /\ [][MdfRT_Next]_vars

IsCommntLine(line) == line[1] # " " /\ NameOfLine(line) = K_Commnt

\* the lines of the file that are not Commnt lines
WithoutCommnt(file) == SelectSeq(file, LAMBDA line : ~IsCommntLine(line))

\* the lines in the layout of export(): the name on 6 columns, numbers as
\* "%.7e" or "%d" writes them
LayoutLines ==
    UNION {{g[i] : i \in DOMAIN g} :
           g \in {G_Ident, G_Commnt, G_Runtxt, G_Filcco, G_MNKmax, G_Thick, G_Dt,
                  G_Dt_2, G_Ktemp, G_Wstres}}

\* every line of the file is in the layout of export(), and no name begins
\* two parameters
InExportLayout(file) ==
    /\ \A i \in 1..Len(file) : file[i] \in LayoutLines
    /\ Len(SelectSeq(file, StartsParameter)) = Len(FirstNames(file))

\* C8 as stated: export() on the unmodified parsed store returns every line
\* of the input file, in order and unchanged.
C8_RoundTrip ==
    last.op = "export" => mdf_out = [ok |-> TRUE, lines |-> mdf_file]

\* C8: for a file in the layout of export() that names no parameter twice,
\* export() on the unmodified parsed store returns the lines of the file
\* in order and unchanged, except the Commnt lines, which it leaves out.
C8_RoundTripButCommnt ==
    (last.op = "export" /\ InExportLayout(mdf_file))
        => mdf_out = [ok |-> TRUE, lines |-> WithoutCommnt(mdf_file)]

\* export() has returned a file of several parameters, an array on two
\* lines among them, without its Commnt line
C8_Witness ==
    /\ last.op = "export" /\ InExportLayout(mdf_file)
    /\ mdf_out.ok /\ Len(mdf_out.lines) = Len(mdf_file) - 1
    /\ \E i \in 1..Len(mdf_out.lines) : mdf_out.lines[i] = G_Thick[2]
    /\ \E i \in 1..Len(mdf_out.lines) : mdf_out.lines[i] = G_MNKmax[1]

-----------------------------------------------------------------------------
(* GrdFile: a grid file is read as one text (f.read()); the regular        *)
(* expressions of load_file search the whole text.  None of them needs     *)
(* backtracking on the characters it repeats: every class it repeats is    *)
(* followed by a character outside the class, so each run is the longest.  *)

\* the elements of a finite set of integers in increasing order
SortedSet(S) ==
    [k \in 1..Cardinality(S) |-> CHOOSE i \in S : Cardinality({j \in S : j < i}) = k - 1]

L_CoordinateSystem == <<"C", "o", "o", "r", "d", "i", "n", "a", "t", "e", " ", "S", "y", "s", "t", "e", "m", " ", "=", " ">>
L_MissingValue     == <<"M", "i", "s", "s", "i", "n", "g", " ", "V", "a", "l", "u", "e">>
L_ETA              == <<" ", "E", "T", "A", "=">>

\* [\w+-.] of the regular expression of the missing value; +-. is the
\* range of the characters from "+" to "."
MissingValueClass == Word \cup {"+", ",", "-", "."}
\* [\d.Ee+] of the regular expression of a row: no "-"
EtaNumberClass == Digit \cup {".", "E", "e", "+"}

\* re.search(r'Coordinate System = ([\w]+)', text)
coordinate_system_re(text) ==
    Strict(LAMBDA hits :
               IF hits = {} THEN [ok |-> FALSE, g1 |-> <<>>]
               ELSE Strict(LAMBDA p : [ok |-> TRUE,
                                       g1 |-> SubSeq(text, p, p + RunLen(text, p, Word) - 1)],
                           SetMin(hits) + Len(L_CoordinateSystem)),
           {i \in 1..Len(text) : /\ StartsAt(text, i, L_CoordinateSystem)
                                 /\ RunLen(text, i + Len(L_CoordinateSystem), Word) >= 1})

\* re.search(r'Missing Value\s+=\s+([\w+-.]+)', text), tried at text[i:]
missing_value_at(text, i) ==
    IF ~StartsAt(text, i, L_MissingValue) THEN [ok |-> FALSE, g1 |-> <<>>]
    ELSE Strict(LAMBDA w1 :
        LET eq == i + Len(L_MissingValue) + w1
        IN  IF w1 < 1 \/ eq > Len(text) \/ text[eq] # "=" THEN [ok |-> FALSE, g1 |-> <<>>]
            ELSE Strict(LAMBDA w2 :
                     Strict(LAMBDA n : IF w2 < 1 \/ n < 1 THEN [ok |-> FALSE, g1 |-> <<>>]
                                       ELSE [ok |-> TRUE,
                                             g1 |-> SubSeq(text, eq + 1 + w2, eq + w2 + n)],
                            RunLen(text, eq + 1 + w2, MissingValueClass)),
                     RunLen(text, eq + 1, Space)),
        RunLen(text, i + Len(L_MissingValue), Space))

missing_value_re(text) ==
    Strict(LAMBDA hits : IF hits = {} THEN [ok |-> FALSE, g1 |-> <<>>]
                         ELSE missing_value_at(text, SetMin(hits)),
           {i \in 1..Len(text) : missing_value_at(text, i).ok})

\* re.search(r'\n\s+([\d]+)\s+([\d]+)\n', text), tried at text[i:]
mn_at(text, i) ==
    IF text[i] # NL THEN [ok |-> FALSE, g1 |-> <<>>, g2 |-> <<>>]
    ELSE Strict(LAMBDA w1 :
         Strict(LAMBDA d1 :
         Strict(LAMBDA w2 :
         Strict(LAMBDA d2 :
             LET p1  == i + 1 + w1
                 p2  == p1 + d1 + w2
                 end == p2 + d2
             IN  IF w1 < 1 \/ d1 < 1 \/ w2 < 1 \/ d2 < 1 \/ end > Len(text) \/ text[end] # NL
                 THEN [ok |-> FALSE, g1 |-> <<>>, g2 |-> <<>>]
                 ELSE [ok |-> TRUE, g1 |-> SubSeq(text, p1, p1 + d1 - 1),
                       g2 |-> SubSeq(text, p2, end - 1)],
             RunLen(text, i + 1 + w1 + d1 + w2, Digit)),
             RunLen(text, i + 1 + w1 + d1, Space)),
             RunLen(text, i + 1 + w1, Digit)),
             RunLen(text, i + 1, Space))

mn_re(text) ==
    Strict(LAMBDA hits : IF hits = {} THEN [ok |-> FALSE, g1 |-> <<>>, g2 |-> <<>>]
                         ELSE mn_at(text, SetMin(hits)),
           {i \in 1..Len(text) : mn_at(text, i).ok})

\* int(s) for a text of digits
py_int(s) == DigitsNat([i \in 1..Len(s) |-> DigitVal(s[i])])

\* (\s+[\d.Ee+]+\n?){k} at text[p:] for the k groups still to match:
\* the tokens matched and the index after the match
RECURSIVE eta_groups(_, _, _, _)
eta_groups(text, p, k, toks) ==
    IF k = 0
    THEN [ok |-> TRUE, cor |-> toks,
          end |-> IF p <= Len(text) /\ text[p] = NL THEN p + 1 ELSE p]
    ELSE Strict(LAMBDA w :
         Strict(LAMBDA t :
             IF w < 1 \/ t < 1 THEN [ok |-> FALSE, cor |-> <<>>, end |-> p]
             ELSE Strict(LAMBDA a : eta_groups(text, a.p, k - 1, a.toks),
                         [p |-> p + w + t,
                          toks |-> Append(toks, SubSeq(text, p + w, p + w + t - 1))]),
             RunLen(text, p + w, EtaNumberClass)),
             RunLen(text, p, Space))

\* ' ETA=\s+\d+(\s+[\d.Ee+]+\n?){m}' tried at text[i:]; cor is
\* match[0].split()[2:]
eta_at(text, i, m) ==
    IF ~StartsAt(text, i, L_ETA) THEN [ok |-> FALSE, cor |-> <<>>, end |-> i]
    ELSE Strict(LAMBDA w :
         Strict(LAMBDA d :
             IF w < 1 \/ d < 1 THEN [ok |-> FALSE, cor |-> <<>>, end |-> i]
             ELSE eta_groups(text, i + Len(L_ETA) + w + d, m, <<>>),
             RunLen(text, i + Len(L_ETA) + w, Digit)),
             RunLen(text, i + Len(L_ETA), Space))

\* re.finditer(pattern, text): the matches from left to right, none
\* beginning inside the one before it
RECURSIVE eta_finditer(_, _, _)
eta_finditer(found, k, from) ==
    IF k > Len(found) THEN <<>>
    ELSE IF found[k].start < from THEN eta_finditer(found, k + 1, from)
    ELSE <<found[k].cor>> \o eta_finditer(found, k + 1, found[k].end)

\* a cell of np.ma.masked_equal(x, value): masked when it equals the value
masked_equal(v, value) ==
    [v |-> v, masked |-> v = value \/ (IsZero(v) /\ IsZero(value))]

\* the grid a failed load_file leaves: the constructor has raised
GrdRaised ==
    [ok |-> FALSE,
     header |-> [coordinate_system |-> None, missing_value |-> Zero(FALSE), MN |-> <<0, 0>>],
     x |-> <<>>, y |-> <<>>]

\* GrdFile.load_file, the reading of the coordinates: header is the header
\* read before
grd_coordinates(text, header) ==
    LET m == header.MN[1]
        n == header.MN[2]
    IN  Strict(LAMBDA rows :
            IF \E r \in 1..Len(rows) : \E c \in 1..Len(rows[r]) : ~rows[r][c].ok
            THEN \* np.float(num) raises ValueError
                 GrdRaised
            ELSE IF Len(rows) # 2 * n
            THEN \* reshape(n, m) raises ValueError: every row holds m numbers
                 GrdRaised
            ELSE [ok |-> TRUE, header |-> header,
                  x |-> [r \in 1..n |-> [c \in 1..m |->
                            masked_equal(rows[r][c].v, header.missing_value)]],
                  y |-> [r \in 1..n |-> [c \in 1..m |->
                            masked_equal(rows[n + r][c].v, header.missing_value)]]],
            Strict(LAMBDA cors : [r \in 1..Len(cors) |->
                                     [c \in 1..Len(cors[r]) |-> ParseFloat(cors[r][c])]],
            Strict(LAMBDA found : eta_finditer(SelectSeq(found, LAMBDA f : f.ok), 1, 1),
            Strict(LAMBDA starts :
                       [k \in 1..Len(starts) |->
                           Strict(LAMBDA r : [start |-> starts[k], ok |-> r.ok,
                                              cor |-> r.cor, end |-> r.end],
                                  eta_at(text, starts[k], m))],
                   SortedSet({i \in 1..Len(text) : StartsAt(text, i, L_ETA)})))))

\* GrdFile.load_file() on the text of the file; ok = FALSE when it raises
grd_load_file(text) ==
    Strict(LAMBDA h :
               IF ~h.missing_value.ok \/ ~h.mn.ok THEN GrdRaised
               ELSE grd_coordinates(text,
                        [coordinate_system |-> IF h.coordinate_system.ok
                                               THEN h.coordinate_system.g1 ELSE None,
                         missing_value |-> h.missing_value.v,
                         MN |-> <<py_int(h.mn.g1), py_int(h.mn.g2)>>]),
           [coordinate_system |-> coordinate_system_re(text),
            missing_value |-> Strict(LAMBDA r : IF r.ok THEN ParseFloat(r.g1)
                                                ELSE [ok |-> TRUE, v |-> Zero(FALSE)],
                                     missing_value_re(text)),
            mn |-> mn_re(text)])

\* "%.17E" % num for a cell of a masked array: float(masked) is nan
grid_number(cell) == FormatE(IF cell.masked THEN NaN ELSE cell.v, 17, "E")

\* grid_writer that ends the row with a line feed of its own also after a
\* fifth number
grid_piece_both(cell, counts, len) ==
    (IF counts # 0 /\ counts % 5 = 0 THEN Rep(" ", 13) ELSE Rep(" ", 3))
    \o grid_number(cell)
    \o (IF counts # 0 /\ counts % 5 = 4 THEN <<NL>> ELSE <<>>)
    \o (IF counts = len - 1 THEN <<NL>> ELSE <<>>)

\* what grid_writer adds to the line for the number at counts
grid_piece(cell, counts, len) ==
    (IF counts # 0 /\ counts % 5 = 0 THEN Rep(" ", 13) ELSE Rep(" ", 3))
    \o grid_number(cell)
    \o (IF counts # 0 /\ counts % 5 = 4 THEN <<NL>> ELSE <<>>)
    \o (IF counts = len - 1 /\ counts % 5 # 4 THEN <<NL>> ELSE <<>>)

\* GrdFile.grid_writer: the texts it appends, one for each row
grid_writer(coordinates) ==
    [index \in 1..Len(coordinates) |->
        L_ETA \o rjust(str(index), 5)
        \o Flatten([c \in 1..Len(coordinates[index]) |->
                       grid_piece(coordinates[index][c], c - 1, Len(coordinates[index]))])]

\* GrdFile.export()
grd_export(g) ==
    [ok |-> TRUE,
     lines |->
        <<L_CoordinateSystem
          \o (IF g.header.coordinate_system = None THEN <<"N", "o", "n", "e">>
              ELSE g.header.coordinate_system) \o <<NL>> >>
        \o (IF ~IsZero(g.header.missing_value)
            THEN <<L_MissingValue \o <<" ", "=", " ">>
                   \o FormatE(g.header.missing_value, 7, "e") \o <<NL>> >>
            ELSE <<>>)
        \o <<rjust(str(g.header.MN[1]), 8) \o rjust(str(g.header.MN[2]), 8) \o <<NL>>,
             <<" ", "0", " ", "0", " ", "0", NL>> >>
        \o grid_writer(g.x) \o grid_writer(g.y)]

-----------------------------------------------------------------------------
(* DepFile: a depth file is read as one text too; load_dep takes from it   *)
(* the groups of MN[0] + 1 numbers, wherever the lines end.                *)

\* [\d.E+-] of the regular expression of load_dep: no "e"
DepNumberClass == Digit \cup {".", "E", "+", "-"}

\* (\s+[\d.E+-]+\n?){k} at text[p:] for the k groups still to match
RECURSIVE dep_groups(_, _, _, _)
dep_groups(text, p, k, toks) ==
    IF k = 0
    THEN [ok |-> TRUE, row |-> toks,
          end |-> IF p <= Len(text) /\ text[p] = NL THEN p + 1 ELSE p]
    ELSE Strict(LAMBDA w :
         Strict(LAMBDA t :
             IF w < 1 \/ t < 1 THEN [ok |-> FALSE, row |-> <<>>, end |-> p]
             ELSE Strict(LAMBDA a : dep_groups(text, a.p, k - 1, a.toks),
                         [p |-> p + w + t,
                          toks |-> Append(toks, SubSeq(text, p + w, p + w + t - 1))]),
             RunLen(text, p + w, DepNumberClass)),
             RunLen(text, p, Space))

\* re.finditer(pattern, text) from text[from:]: the matches from left to
\* right.  A match begins with whitespace; where a run of whitespace gives
\* no match, no later character of the run gives one.
RECURSIVE dep_finditer(_, _, _)
dep_finditer(text, from, k) ==
    Strict(LAMBDA hits :
               IF hits = {} THEN <<>>
               ELSE Strict(LAMBDA r : <<r.row>> \o dep_finditer(text, r.end, k),
                           dep_groups(text, SetMin(hits), k, <<>>)),
           {p \in from..Len(text) :
               /\ IsSpace(text[p])
               /\ (p = from \/ ~IsSpace(text[p - 1]))
               /\ dep_groups(text, p, k, <<>>).ok})

\* the depth a failed load_dep leaves: the constructor has raised
DepRaised == [ok |-> FALSE, data |-> <<>>, shape |-> <<0, 0>>]

\* the missing value of the grid files in the place of the sentinel
Sentinel_grid == Normalize(TRUE, <<9, 9, 9, 9, 9, 9>>, 2)

\* the sentinel export() writes in the last row and the last column
Sentinel == Normalize(TRUE, <<9, 9, 9>>, 2)

\* DepFile.load_dep() on the text of the file for the grid's MN[0] = m;
\* data is the array as a sequence of rows, shape its shape
load_dep(text, m) ==
    Strict(LAMBDA parsed :
        IF \E r \in 1..Len(parsed) : \E c \in 1..Len(parsed[r]) : ~parsed[r][c].ok
        THEN \* float(i) raises ValueError
             DepRaised
        ELSE IF parsed = <<>>
        THEN \* np.delete of an empty array raises IndexError
             DepRaised
        ELSE [ok |-> TRUE,
              data |-> [r \in 1..(Len(parsed) - 1) |-> [c \in 1..m |-> parsed[r][c].v]],
              shape |-> <<Len(parsed) - 1, m>>],
        Strict(LAMBDA rows : [r \in 1..Len(rows) |->
                                 [c \in 1..Len(rows[r]) |-> ParseFloat(rows[r][c])]],
               dep_finditer(text, 1, m + 1)))

\* the array with one more row of -999.0 and no more column
dep_data_of_row(d) ==
    [r \in 1..(d.shape[1] + 1) |->
        [c \in 1..d.shape[2] |-> IF r <= d.shape[1] THEN d.data[r][c] ELSE Sentinel]]

\* dep_data of export(): the array with one more row and one more column
\* of -999.0
dep_data_of(d) ==
    [r \in 1..(d.shape[1] + 1) |->
        [c \in 1..(d.shape[2] + 1) |->
            IF r <= d.shape[1] /\ c <= d.shape[2] THEN d.data[r][c] ELSE Sentinel]]

\* export() that closes the line after every 12th number and after the
\* last number, also where the last is a 12th
dep_piece_both(num, counts, len) ==
    rjust(FormatE(num, 7, "E"), 16)
    \o (IF counts % 12 = 11 THEN <<NL>> ELSE <<>>)
    \o (IF counts = len - 1 THEN <<NL>> ELSE <<>>)

\* what export() adds to the line for the number at counts
dep_piece(num, counts, len) ==
    rjust(FormatE(num, 7, "E"), 16)
    \o (IF counts % 12 = 11 THEN <<NL>> ELSE <<>>)
    \o (IF counts = len - 1 /\ counts % 12 # 11 THEN <<NL>> ELSE <<>>)

\* str.splitlines() followed by x + '\n' for a text that ends its lines
\* with a line feed
linesOf(line) ==
    Strict(LAMBDA ends :
               [k \in 1..Len(ends) |->
                   SubSeq(line, IF k = 1 THEN 1 ELSE ends[k - 1] + 1, ends[k])],
           SortedSet({i \in 1..Len(line) : line[i] = NL}))

\* DepFile.export(): the lines, and the array they are written from
dep_export(d) ==
    Strict(LAMBDA dep_data :
               [ok |-> TRUE, matrix |-> dep_data,
                lines |-> Flatten([index \in 1..Len(dep_data) |->
                             linesOf(Flatten([c \in 1..Len(dep_data[index]) |->
                                 dep_piece(dep_data[index][c], c - 1,
                                           Len(dep_data[index]))]))])],
           dep_data_of(d))

-----------------------------------------------------------------------------
(* Grid files: the texts of the model *)

\* numbers as "%.17E" writes them; each is a binary fraction, so that
\* float() of the text is the number the text shows
T_1p5    == <<"1", ".", "5", "0", "0", "0", "0", "0", "0", "0", "0", "0", "0", "0", "0", "0", "0", "0", "0", "E", "+", "0", "0">>
T_225    == <<"2", ".", "2", "5", "0", "0", "0", "0", "0", "0", "0", "0", "0", "0", "0", "0", "0", "0", "0", "E", "+", "0", "2">>
T_12p5   == <<"1", ".", "2", "5", "0", "0", "0", "0", "0", "0", "0", "0", "0", "0", "0", "0", "0", "0", "0", "E", "+", "0", "1">>
T_3      == <<"3", ".", "0", "0", "0", "0", "0", "0", "0", "0", "0", "0", "0", "0", "0", "0", "0", "0", "0", "E", "+", "0", "0">>
T_7p75   == <<"7", ".", "7", "5", "0", "0", "0", "0", "0", "0", "0", "0", "0", "0", "0", "0", "0", "0", "0", "E", "+", "0", "0">>
T_zero   == <<"0", ".", "0", "0", "0", "0", "0", "0", "0", "0", "0", "0", "0", "0", "0", "0", "0", "0", "0", "E", "+", "0", "0">>
T_neg    == <<"-", "2", ".", "5", "0", "0", "0", "0", "0", "0", "0", "0", "0", "0", "0", "0", "0", "0", "0", "0", "E", "+", "0", "0">>
T_negexp == <<"2", ".", "5", "0", "0", "0", "0", "0", "0", "0", "0", "0", "0", "0", "0", "0", "0", "0", "0", "E", "-", "0", "1">>
GridPool == <<T_1p5, T_225, T_12p5, T_3, T_7p75>>

CS_Cartesian == <<"C", "a", "r", "t", "e", "s", "i", "a", "n">>
CS_Spherical == <<"S", "p", "h", "e", "r", "i", "c", "a", "l">>
\* the Missing Value line of a file: none, the usual one, an explicit 0
MV_none == <<>>
MV_999  == <<"M", "i", "s", "s", "i", "n", "g", " ", "V", "a", "l", "u", "e", " ", "=", " ", "-", "9", ".", "9", "9", "9", "9", "9", "0", "0", "e", "+", "0", "2", "\n">>
MV_0    == <<"M", "i", "s", "s", "i", "n", "g", " ", "V", "a", "l", "u", "e", " ", "=", " ", "0", ".", "0", "0", "0", "0", "0", "0", "0", "e", "+", "0", "0", "\n">>

\* one row of a grid file: the label, then the numbers, 5 on a line
GridRow(index, toks) ==
    L_ETA \o rjust(str(index), 5)
    \o Flatten([c \in 1..Len(toks) |->
                   (IF c > 1 /\ c % 5 = 1 THEN Rep(" ", 13) ELSE Rep(" ", 3))
                   \o toks[c]
                   \o (IF c % 5 = 0 \/ c = Len(toks) THEN <<NL>> ELSE <<>>)])

\* the text of a grid file of n rows of m numbers for X and for Y
GridText(cs, mv, m, n, X, Y) ==
    L_CoordinateSystem \o cs \o <<NL>> \o mv
    \o rjust(str(m), 8) \o rjust(str(n), 8) \o <<NL>>
    \o <<" ", "0", " ", "0", " ", "0", NL>>
    \o Flatten([r \in 1..n |-> GridRow(r, X[r])])
    \o Flatten([r \in 1..n |-> GridRow(r, Y[r])])

\* the numbers of a grid of the pool, with the number special at the first
\* place of X (where = 1) or at the last place of Y (where = 2)
GridX(m, n, special, where) ==
    [r \in 1..n |-> [c \in 1..m |->
        IF where = 1 /\ r = 1 /\ c = 1 THEN special
        ELSE GridPool[((r + c) % Len(GridPool)) + 1]]]
GridY(m, n, special, where) ==
    [r \in 1..n |-> [c \in 1..m |->
        IF where = 2 /\ r = n /\ c = m THEN special
        ELSE GridPool[((r + 2 * c) % Len(GridPool)) + 1]]]

GridShapes == {<<2, 2>>, <<6, 1>>}

GrdFiles ==
    {GridText(cs, mv, mn[1], mn[2], GridX(mn[1], mn[2], special, where),
              GridY(mn[1], mn[2], special, where)) :
        cs \in {CS_Cartesian, CS_Spherical}, mv \in {MV_none, MV_999, MV_0},
        mn \in GridShapes, special \in {T_1p5, T_zero, T_neg, T_negexp},
        where \in {1, 2}}

-----------------------------------------------------------------------------
(* The round trip of a grid file *)

\* GrdFile(filename) for a file of GrdFiles; grd.ok = FALSE when the
\* constructor raises
Grd_Init ==
    /\ grd_text \in GrdFiles
    /\ grd = grd_load_file(grd_text)
    /\ grd_out = NoOut
    /\ last = NoCall /\ Sim_Idle
    /\ TS_Idle /\ Mdf_Idle /\ Dep_Idle

\* GrdFile.export() of a grid that was loaded
Grd_Export ==
    /\ grd.ok
    /\ \E out \in {grd_export(grd)} :
        /\ grd_out' = out
        /\ last' = [op |-> "export", raised |-> ~out.ok, num |-> 0,
                    arg |-> <<>>, unit |-> FALSE]
        /\ UNCHANGED <<sim, grd_text, grd, ts_vars, mdf_vars, dep_vars>>

Grd_Next == Grd_Export

SpecGrdRoundTrip == Grd_Init /\ [][Grd_Next]_vars

\* C6: every grid file is parsed, and the concatenation of export() on the
\* unmodified parsed grid equals the text of the file.
C6_RoundTrip ==
    /\ grd.ok
    /\ last.op = "export" => Flatten(grd_out.lines) = grd_text

\* export() has returned a grid file without the Missing Value line of the
\* input, which gave the value 0
C6_Witness ==
    /\ last.op = "export"
    /\ Contains(grd_text, MV_0)
    /\ Flatten(grd_out.lines) # grd_text
    /\ Len(Flatten(grd_out.lines)) = Len(grd_text) - Len(MV_0)

-----------------------------------------------------------------------------
(* Depth files: the texts of the model *)

\* numbers as "%16.7E" writes them
D_1p5      == <<" ", " ", " ", "1", ".", "5", "0", "0", "0", "0", "0", "0", "E", "+", "0", "0">>
D_neg      == <<" ", " ", "-", "2", ".", "5", "0", "0", "0", "0", "0", "0", "E", "-", "0", "1">>
D_100      == <<" ", " ", " ", "1", ".", "0", "0", "0", "0", "0", "0", "0", "E", "+", "0", "2">>
D_3        == <<" ", " ", " ", "3", ".", "0", "0", "0", "0", "0", "0", "0", "E", "+", "0", "0">>
D_zero     == <<" ", " ", " ", "0", ".", "0", "0", "0", "0", "0", "0", "0", "E", "+", "0", "0">>
D_sentinel == <<" ", " ", "-", "9", ".", "9", "9", "0", "0", "0", "0", "0", "E", "+", "0", "2">>
DepPool == <<D_1p5, D_neg, D_100, D_3>>

\* the greatest number of rows of a depth file of the model
MaxDepRows == 3

\* the text of a depth file of rows lines of m + 1 numbers, 12 on a line:
\* the numbers of the pool from the place shift on, border in the last row
\* and the last column, corner where they meet
DepText(rows, m, shift, border, corner) ==
    Flatten([r \in 1..rows |->
        Flatten([c \in 1..(m + 1) |->
            (IF r = rows /\ c = m + 1 THEN corner
             ELSE IF r = rows \/ c = m + 1 THEN border
             ELSE DepPool[((r + c + shift) % Len(DepPool)) + 1])
            \o (IF c % 12 = 0 \/ c = m + 1 THEN <<NL>> ELSE <<>>)])])

DepFilesFor(m) ==
    {DepText(rows, m, shift, edge[1], edge[2]) :
        rows \in 1..MaxDepRows, shift \in {0, 1, 2},
        edge \in {<<D_sentinel, D_sentinel>>, <<D_zero, D_zero>>,
                  <<D_sentinel, D_1p5>>}}

\* the grids of the depth files: M = 2, 6 and 12
DepGrids ==
    {GridText(CS_Cartesian, MV_999, mn[1], mn[2], GridX(mn[1], mn[2], T_1p5, 1),
              GridY(mn[1], mn[2], T_1p5, 1)) : mn \in GridShapes \cup {<<12, 1>>}}

-----------------------------------------------------------------------------
(* The round trip of a depth file *)

\* DepFile(filename, grd_file) for a grid of DepGrids and a depth file with
\* rows of as many numbers as the grid asks for
Dep_Init ==
    /\ grd_text \in DepGrids
    /\ grd = grd_load_file(grd_text)
    /\ grd_out = NoOut
    /\ dep_text \in DepFilesFor(grd.header.MN[1])
    /\ dep = load_dep(dep_text, grd.header.MN[1])
    /\ dep_out = NoOut
    /\ last = NoCall /\ Sim_Idle
    /\ TS_Idle /\ Mdf_Idle

\* DepFile.export() of a depth that was loaded
Dep_Export ==
    /\ dep.ok
    /\ \E out \in {dep_export(dep)} :
        /\ dep_out' = out
        /\ last' = [op |-> "export", raised |-> ~out.ok, num |-> 0,
                    arg |-> <<>>, unit |-> FALSE]
        /\ UNCHANGED <<sim, dep_text, dep, ts_vars, mdf_vars, grd_vars>>

Dep_Next == Dep_Export

SpecDep == Dep_Init /\ [][Dep_Next]_vars

\* the numbers of a text as it shows them, read off without load_dep
TokensOf(text) ==
    Strict(LAMBDA starts :
               [k \in 1..Len(starts) |->
                   SubSeq(text, starts[k],
                          starts[k] + RunLenNot(text, starts[k], Space) - 1)],
           SortedSet({i \in 1..Len(text) :
                         ~IsSpace(text[i]) /\ (i = 1 \/ IsSpace(text[i - 1]))}))

\* M and N of the grid of the depth file
GridM == grd.header.MN[1]
GridN == grd.header.MN[2]

\* the number of rows of M + 1 numbers the depth file holds
FileRows == Len(TokensOf(dep_text)) \div (GridM + 1)

\* the last row and the last column of the depth file hold -999.0, as the
\* format asks
SentinelBorder ==
    Strict(LAMBDA toks :
               \A k \in 1..Len(toks) :
                   (k % (GridM + 1) = 0 \/ k > (FileRows - 1) * (GridM + 1))
                       => toks[k] = strip(D_sentinel, " "),
           TokensOf(dep_text))

\* C7: for a depth file in the format (rows of M + 1 numbers written as
\* "%16.7E", 12 on a line, -999.0 in the last row and the last column)
\* export() on the unmodified parsed depth returns the lines of the file,
\* the last row and the last column that parsing strips among them.
C7_RoundTrip ==
    (last.op = "export" /\ SentinelBorder)
        => (dep_out.ok /\ dep_out.lines = linesOf(dep_text))

\* export() has returned the lines of a file of several rows, more than 12
\* numbers in each, the last line all -999.0
C7_Witness ==
    /\ last.op = "export" /\ SentinelBorder
    /\ FileRows > 1 /\ GridM + 1 > 12
    /\ Len(dep_out.lines) = 2 * FileRows
    /\ dep_out.lines[Len(dep_out.lines)] = D_sentinel \o <<NL>>
    /\ dep_out.lines[1] # dep_out.lines[3]

\* the shape of an array given as a sequence of rows of one length
IsShape(a, rows, cols) ==
    Len(a) = rows /\ \A r \in 1..Len(a) : Len(a[r]) = cols

\* C9 as stated: for a grid (M, N) the depth parses to (N-1) x (M-1) and
\* exports to N x (M+1), the stored array with a last row and a last
\* column of the sentinel.
C9_ShapeByGrid ==
    dep.ok =>
        /\ dep.shape = <<GridN - 1, GridM - 1>>
        /\ IsShape(dep.data, GridN - 1, GridM - 1)
        /\ last.op = "export" => IsShape(dep_out.matrix, GridN, GridM + 1)

\* C9: for a grid (M, N) and a depth file of R rows of M + 1 numbers the
\* depth parses to (R-1) x M, whatever N is, and exports to R x (M+1):
\* the stored array with one more row and one more column, all -999.0.
C9_ShapeByFile ==
    dep.ok =>
        /\ dep.shape = <<FileRows - 1, GridM>>
        /\ IsShape(dep.data, FileRows - 1, GridM)
        /\ last.op = "export" =>
            /\ IsShape(dep_out.matrix, FileRows, GridM + 1)
            /\ \A r \in 1..FileRows : \A c \in 1..(GridM + 1) :
                   dep_out.matrix[r][c] =
                       IF r < FileRows /\ c <= GridM THEN dep.data[r][c]
                       ELSE Normalize(TRUE, <<9, 9, 9>>, 2)

\* export() has written a depth of two rows, parsed from a file of three
\* rows for a grid of two rows
C9_Witness ==
    /\ last.op = "export" /\ dep.ok
    /\ FileRows = GridN + 1 /\ Len(dep.data) = 2
    /\ Len(dep_out.matrix) = 3
    /\ dep_out.matrix[1][1] = dep.data[1][1]
    /\ dep.data[1][1] # Normalize(TRUE, <<9, 9, 9>>, 2)

-----------------------------------------------------------------------------
(* The order of the header fields of a block *)

\* the lines of a text that are header lines: a data row starts with a blank
HeaderLines(lines) == SelectSeq(lines, LAMBDA l : l[1] # " ")
\* the names the header lines of a text start with, in the order of the lines
HeaderNames(lines) ==
    Strict(LAMBDA h : [i \in 1..Len(h) |-> NameOfLine(h[i])], HeaderLines(lines))
\* the header lines of a text that are 'parameter' lines
ParameterLines(lines) ==
    SelectSeq(lines, LAMBDA l : l[1] # " " /\ NameOfLine(l) = K_parameter)
\* the label of a 'parameter' line: the text between its first two quotes,
\* without the blanks around it
LabelOfLine(line) ==
    Strict(LAMBDA q : strip(SubSeq(line, q[1] + 1, q[2] - 1), " "),
           Sorted({i \in 1..Len(line) : line[i] = "'"}))
\* the places of the lines of a file that hold 'table-name', and the lines from the
\* b-th of them up to the next one
TableNameAt(file) == Sorted({i \in 1..Len(file) : Contains(file[i], K_table_name)})
LinesOfBlock(file, b) ==
    Strict(LAMBDA t : SubSeq(file, t[b], IF b < Len(t) THEN t[b + 1] - 1 ELSE Len(file)),
           TableNameAt(file))
\* the nested dict of a block's 'parameter' entry
Parameters(block) == Get(block.header, K_parameter).sub

-----------------------------------------------------------------------------
(* The construction of a TimeSeriesFile from files of any layout *)

Row_two  == <<" ", "0", ".", "0", "0", "0", "0", "0", "0", "0", "e", "+", "0", "0", " ", "1", ".", "0", "0", "0", "0", "0", "0", "0", "e", "+", "0", "2", "\n">>
Row_four == <<" ", "1", ".", "4", "4", "0", "0", "0", "0", "0", "e", "+", "0", "3", " ", "1", ".", "0", "0", "0", "0", "0", "0", "0", "e", "+", "0", "2", " ", "2", ".", "0", "0", "0", "0", "0", "0", "0", "e", "+", "0", "2", " ", "3", ".", "0", "0", "0", "0", "0", "0", "0", "e", "+", "0", "2", "\n">>
\* a line that is no header line and no data row
L_blank  == <<NL>>
\* a header line ahead of the first table
L_lead   == HeaderLine(K_location, Quote(Loc_Riv))

WithoutLine(s, i) == SubSeq(s, 1, i - 1) \o SubSeq(s, i + 1, Len(s))
\* the header lines of a block in one of four layouts: complete, without the
\* 'reference-time' line, without the 'records-in-table' line, or with an
\* empty line in the place of the 'records-in-table' line
HeaderLayouts == {"full", "noref", "norec", "blank"}
LayoutHeader(name, layout, records) ==
    Strict(LAMBDA h :
               CASE layout = "full"  -> h
                 [] layout = "noref" -> WithoutLine(h, KeyIndex([i \in 1..Len(h) |->
                                            [key |-> NameOfLine(h[i])]], K_reference_time))
                 [] layout = "norec" -> SubSeq(h, 1, Len(h) - 1)
                 [] layout = "blank" -> SubSeq(h, 1, Len(h) - 1) \o <<L_blank>>,
           BlockHeader(name, Loc_North, Ref_20200315, records))
\* the data rows of a block: rows of three numbers, of two and of four
ParseRows ==
    { <<>>, <<Row_0>>, <<Row_0, Row_1440>>, <<Row_two>>, <<Row_0, Row_two>>,
      <<Row_four>>, <<Row_0, Row_four>> }
L_table_name_2 == HeaderLine(K_table_name, Quote(Name_2))

\* the files: one block in any layout with any rows, then nothing or a
\* complete second block; a header line ahead of the first table or none; a
\* 'table-name' line as the last line or none; and the file of one line
ParseFiles ==
    { lead \o LayoutHeader(Name_1, layout, str(Len(rows))) \o rows \o second \o tail :
        lead \in {<<>>, <<L_lead>>}, layout \in HeaderLayouts, rows \in ParseRows,
        second \in {<<>>, Block(Name_2, Loc_Range, Ref_20191231, <<Row_2880>>)},
        tail \in {<<>>, <<L_table_name_2>>} }
    \cup { <<L_table_name_2>> }

\* before TimeSeriesFile(filename)
Parse_Init ==
    /\ TS_Idle
    /\ last = NoCall /\ Sim_Idle
    /\ Mdf_Idle /\ Grd_Idle /\ Dep_Idle

\* TimeSeriesFile(filename) for a file of ParseFiles; raised when load_file
\* raises, and then there is no object
TS_Load ==
    /\ last.op = "none"
    /\ \E file \in ParseFiles :
        \E r \in {load_file(file)} :
            /\ ts_file' = file
            /\ data' = r.data
            /\ ts_out' = NoOut
            /\ last' = [op |-> "load", raised |-> ~r.ok, num |-> 0,
                        arg |-> <<>>, unit |-> FALSE]
            /\ UNCHANGED <<sim, mdf_vars, grd_vars, dep_vars>>

\* export() of the object that was constructed
TS_ExportLoaded ==
    /\ last.op \in {"load", "export"}
    /\ ~(last.op = "load" /\ last.raised)
    /\ TS_Export

Parse_Next == TS_Load \/ TS_ExportLoaded

SpecTimeSeriesParse == Parse_Init /\ [][Parse_Next]_vars

\* the block TimeSeries(lines) builds
BlockOf(lines) ==
    Strict(LAMBDA t : [header |-> t.header, time_series |-> t.time_series],
           TimeSeries(lines))

\* C12: when TimeSeriesFile(filename) returns, data holds one block per line
\* of the file that contains 'table-name', and the b-th block is what
\* TimeSeries builds from the lines from the b-th such line up to the line
\* before the next one, the last block from its line to the end of the file.
C12_OneBlockPerTableName ==
    (last.op = "load" /\ ~last.raised) =>
        /\ Len(data) = Len(TableNameAt(ts_file))
        /\ \A b \in 1..Len(data) : data[b] = BlockOf(LinesOfBlock(ts_file, b))

\* the constructor returned with fewer blocks than the file has
\* 'table-name' lines: the last line of the file is one of them
C12_Witness ==
    /\ last.op = "load" /\ ~last.raised
    /\ Len(data) < Len(TableNameAt(ts_file))
    /\ Contains(ts_file[Len(ts_file)], K_table_name)

-----------------------------------------------------------------------------
(* The widths of the header fields *)

\* what a header line of a file holds after the 21 columns of the name
FieldOf(line) == SubSeq(line, 21 + 1, Len(line) - 1)
\* the line of a block of the file that starts with the name key
LineNamed(lines, key) ==
    lines[CHOOSE i \in 1..Len(lines) : lines[i][1] # " " /\ NameOfLine(lines[i]) = key]
\* the place of the second quote of a text
SecondQuote(s) == Sorted({i \in 1..Len(s) : s[i] = "'"})[2]
UnitText(unit) == <<"u", "n", "i", "t", " ", "'", "[">> \o unit \o <<"]", "'">>
\* a value in the width of the field of the file: quoted when the field of
\* the file is quoted, followed by the unit in the width of the rest of the
\* field when there is one
Rendered(field, value, unit) ==
    IF field[1] = "'"
    THEN Strict(LAMBDA q :
                    Quote(ljust(value, q - 2))
                    \o (IF unit = None THEN <<>> ELSE rjust(UnitText(unit), Len(field) - q)),
                SecondQuote(field))
    ELSE ljust(value, Len(field))
\* the new content is no longer than the width of the field of the file
Fits(field, value, unit) ==
    IF field[1] = "'"
    THEN /\ Len(value) <= SecondQuote(field) - 2
         /\ unit # None => Len(UnitText(unit)) <= Len(field) - SecondQuote(field)
    ELSE Len(value) <= Len(field)
\* export() of a Parameter is its value and unit in the widths of field
InRecordedWidth(field, p) ==
    \E text \in {Parameter_export(p)} :
        /\ text = Rendered(field, p.value, p.unit)
        /\ Fits(field, p.value, p.unit) => Len(text) = Len(field)

\* C13: in every state reached by set_header and set_time_series calls,
\* Parameter.export() of a header field is the field's present value
\* left-justified in the width the field has in the file (between the quotes
\* when the file quotes it), followed for a parameter by "unit '[u]'"
\* right-justified in the width the unit has in the file; its length is the
\* length of the field in the file whenever value and unit fit these widths.
C13_RenderedInRecordedWidth ==
    \A b \in 1..Len(data) :
        \E lines \in {LinesOfBlock(ts_file, b)} :
        \E parameters \in {ParameterLines(lines)} :
            /\ \A i \in 1..Len(data[b].header) :
                   (data[b].header[i].key # K_parameter
                    /\ data[b].header[i].val.type # "None") =>
                       InRecordedWidth(FieldOf(LineNamed(lines, data[b].header[i].key)),
                                       data[b].header[i].val)
            /\ \A i \in 1..Len(Parameters(data[b])) :
                   InRecordedWidth(FieldOf(parameters[i]), Parameters(data[b])[i].val)

\* set_header gave the location a name longer than its field, after the
\* first parameter got a new value and a new unit that fit
C13_Witness ==
    /\ last.op = "set_header" /\ ~last.raised
    /\ Get(data[1].header, K_location).value = V_long
    /\ Len(Parameter_export(Get(data[1].header, K_location))) > 20 + 2
    /\ Parameters(data[1])[1].val.value = V_relative
    /\ Parameters(data[1])[1].val.unit = V_hour

-----------------------------------------------------------------------------
(* set_header on the 'parameter' entry *)

\* the last call was set_header with the 'parameter' entry alone
SetsParameters ==
    /\ last.op = "set_header"
    /\ Len(last.arg) = 1
    /\ last.arg[1].key = K_parameter
\* the labels the call names
Named(call) == {call.arg[1].sub[i].key : i \in 1..Len(call.arg[1].sub)}
NewText(call, label) ==
    call.arg[1].sub[CHOOSE i \in 1..Len(call.arg[1].sub) : call.arg[1].sub[i].key = label].val

\* C14: a set_header call on the 'parameter' entry leaves every table row,
\* every other header field and every parameter it does not name as they
\* were; of a parameter it names it leaves the value as it was when unit is
\* True and the unit as it was when unit is False, and when the call returns
\* the unit, respectively the value, is the text given.
C14_OnlyUnitOrValue ==
    [][SetsParameters' =>
        \A b \in 1..Len(data) :
            /\ Len(data') = Len(data)
            /\ data'[b].time_series = data[b].time_series
            /\ Keys(data'[b].header) = Keys(data[b].header)
            /\ \A i \in 1..Len(data[b].header) :
                   data[b].header[i].key # K_parameter =>
                       data'[b].header[i] = data[b].header[i]
            /\ Keys(Parameters(data'[b])) = Keys(Parameters(data[b]))
            /\ \A i \in 1..Len(Parameters(data[b])) :
                   LET old == Parameters(data[b])[i]
                       new == Parameters(data'[b])[i]
                   IN  IF b = last'.num + 1 /\ old.key \in Named(last')
                       THEN IF last'.unit
                            THEN /\ [new.val EXCEPT !.unit = old.val.unit] = old.val
                                 /\ ~last'.raised => new.val.unit = NewText(last', old.key)
                            ELSE /\ [new.val EXCEPT !.value = old.val.value] = old.val
                                 /\ ~last'.raised => new.val.value = NewText(last', old.key)
                       ELSE new = old
      ]_vars

\* set_header gave the first parameter the unit 'hour' and kept the value
\* 'relative time' that an earlier call had given it
C14_Witness ==
    /\ SetsParameters /\ ~last.raised /\ last.unit
    /\ Parameters(data[1])[1].val.unit = V_hour
    /\ Parameters(data[1])[1].val.value = V_relative
    /\ ts_out = NoOut

-----------------------------------------------------------------------------
(* What set_parm stores *)

\* the entry set_parm is to store for a value, given the entry the store
\* holds: a float for a number, a one-dimensional array of the values for a
\* one-dimensional array, a column of the values for a column, the value
\* itself under Runtxt, its text in every other case
Stored(old, key, value) ==
    IF old.t \in {"float", "int"}
    THEN [t |-> "float", dim |-> 0,
          v |-> IF value.t = "int" THEN FromInt(value.n) ELSE NaN, a |-> <<>>, s |-> <<>>]
    ELSE IF old.t = "ndarray"
    THEN [t |-> "ndarray", dim |-> old.dim, v |-> NaN,
          a |-> [i \in 1..Len(value.a) |-> FromInt(value.a[i])], s |-> <<>>]
    ELSE IF key = K_Runtxt
    THEN [t |-> "list", dim |-> 0, v |-> NaN, a |-> value.a, s |-> <<>>]
    ELSE [t |-> "str", dim |-> 0, v |-> NaN, a |-> <<>>,
          s |-> value.s]
\* the values the cases of Stored are stated for: a number for a number, a
\* list of numbers for an array, a list of strings for Runtxt, a string
\* for the rest
Suits(old, key, value) ==
    IF old.t \in {"float", "int"} THEN value.t = "int"
    ELSE IF old.t = "ndarray" THEN value.t = "ints"
    ELSE IF key = K_Runtxt THEN value.t = "strs"
    ELSE value.t = "str"

\* C15: when set_parm returns, each name of its dict whose value suits the
\* entry holds float(value) where the store held a number, a
\* one-dimensional array of the values where it held a one-dimensional
\* array, a column of the values where it held a column, else the list as
\* given when the name is Runtxt, else str(value).
C15_StoresByKind ==
    [][(last'.op = "set_parm" /\ ~last'.raised) =>
        \A i \in 1..Len(last'.arg) :
            LET key == last'.arg[i].key
                value == last'.arg[i].val
            IN  Suits(Get(mdf_data, key), key, value) =>
                    Get(mdf_data', key) = Stored(Get(mdf_data, key), key, value)
      ]_vars

\* set_parm gave the column Thick two values, after calls gave Runtxt a
\* list of one string and the number Dt the float 1.0
C15_Witness ==
    /\ last.op = "set_parm" /\ ~last.raised
    /\ last.arg[1].key = K_Thick
    /\ Get(mdf_data, K_Thick).dim = 2 /\ Len(Get(mdf_data, K_Thick).a) = 2
    /\ Get(mdf_data, K_Runtxt).t = "list" /\ Len(Get(mdf_data, K_Runtxt).a) = 1
    /\ Get(mdf_data, K_Dt) = MdfFloat(FromInt(1))
    /\ Get(mdf_data, K_MNKmax).dim = 1
    /\ Get(mdf_data, K_Filcco).t = "str"

-----------------------------------------------------------------------------
(* The lines of MNKmax *)

\* the lines of a parameter in a text: the line that starts with the name
\* and the lines after it that start with a blank
LinesOfParameter(lines, key) ==
    Strict(LAMBDA i : SubSeq(lines, i, i + SetMax({n \in 0..(Len(lines) - i) :
                                                      \A k \in 1..n : lines[i + k][1] = " "})),
           CHOOSE i \in 1..Len(lines) : lines[i][1] # " " /\ NameOfLine(lines[i]) = key)
\* set_parm stored 1, 2, 3 under MNKmax and export() wrote the store
ExportedMNKmax123 ==
    /\ last.op = "export" /\ mdf_out.ok
    /\ HasKey(mdf_data, K_MNKmax)
    /\ Get(mdf_data, K_MNKmax).a = <<FromInt(1), FromInt(2), FromInt(3)>>
L_MNKmax_1   == <<"M", "N", "K", "m", "a", "x", " ", "=", " ", "1", "\n">>
L_MNKmax_123 == <<"M", "N", "K", "m", "a", "x", " ", "=", " ", "1", " ", "2", " ", "3", "\n">>
L_cont_2     == <<" ", " ", " ", " ", " ", " ", " ", " ", " ", " ", "2", "\n">>
L_cont_3     == <<" ", " ", " ", " ", " ", " ", " ", " ", " ", " ", "3", "\n">>

\* C16, as the spec states it: after set_parm({'MNKmax': [1, 2, 3]}),
\* export() writes for MNKmax the three lines 'MNKmax = 1', '          2'
\* and '          3'.
C16_ThreeLines ==
    ExportedMNKmax123 =>
        LinesOfParameter(mdf_out.lines, K_MNKmax) = <<L_MNKmax_1, L_cont_2, L_cont_3>>

\* C16, amended: after set_parm({'MNKmax': [1, 2, 3]}), export() writes for
\* MNKmax the one line 'MNKmax = 1 2 3' when the file holds MNKmax on one
\* line, and the three lines 'MNKmax = 1', '          2', '          3' when
\* the file holds it on several lines; every number is written as an
\* integer without exponent.
C16_LinesAsInFile ==
    ExportedMNKmax123 =>
        LinesOfParameter(mdf_out.lines, K_MNKmax)
        = IF Len(LinesOfParameter(mdf_file, K_MNKmax)) = 1
          THEN <<L_MNKmax_123>>
          ELSE <<L_MNKmax_1, L_cont_2, L_cont_3>>

\* export() wrote one line for MNKmax, set to 1, 2, 3 in a file that holds
\* it on one line
C16_Witness ==
    /\ ExportedMNKmax123
    /\ mdf_file = MdfEditFile_1
    /\ Len(LinesOfParameter(mdf_out.lines, K_MNKmax)) = 1

-----------------------------------------------------------------------------
(* MdfFile.add_parm.  MdfFile.py does not hold the method; test_MdfFile and *)
(* Simulation.output_nc call it with a dict of one new name, and the test  *)
(* reads the value back from data.  It is taken to assign data[name] =     *)
(* value for each entry of the dict, as set_parm assigns under Runtxt.     *)

K_FlNcdf == <<"F", "l", "N", "c", "d", "f">>
V_FlNcdf == <<"m", "a", "p", " ", "h", "i", "s", " ", "d", "r", "o", " ", "f", "o", "u">>
K_Tlfsmo == <<"T", "l", "f", "s", "m", "o">>

\* a method that goes through set_parm, which knows the names of the store only
add_parm_known(d, items) == set_parm(d, items)

\* MdfFile.add_parm(data): the loop over the caller's dict
RECURSIVE add_parm(_, _)
add_parm(d, items) ==
    IF items = <<>> THEN [ok |-> TRUE, d |-> d]
    ELSE Strict(LAMBDA a : add_parm(a.d, a.items),
                [d |-> mdf_assign(d, Head(items).key, py_object(Head(items).val)),
                 items |-> Tail(items)])

\* the dicts given to add_parm
AddDicts ==
    { <<ParmItem(K_FlNcdf, PyStr(V_FlNcdf))>>,
      <<ParmItem(K_Tlfsmo, PyInt(60))>>,
      <<ParmItem(K_Nokey, PyStr(V_FlNcdf)), ParmItem(K_Tlfsmo, PyInt(0))>> }

\* MdfFile.add_parm(data) with names the store does not hold
Mdf_AddParm ==
    \E items \in AddDicts :
        /\ \A i \in 1..Len(items) : ~HasKey(mdf_data, items[i].key)
        /\ \E r \in {add_parm(mdf_data, items)} :
            /\ mdf_data' = r.d
            /\ mdf_out' = NoOut
            /\ last' = [op |-> "add_parm", raised |-> ~r.ok, num |-> 0,
                        arg |-> items, unit |-> FALSE]
            /\ UNCHANGED <<sim, mdf_file, ts_vars, grd_vars, dep_vars>>

MdfAdd_Next == Mdf_SetParm \/ Mdf_AddParm \/ Mdf_Export

SpecMdfAdd == Mdf_Init /\ [][MdfAdd_Next]_vars

-----------------------------------------------------------------------------
(* set_time_series with series over different timestamps *)

\* the last call was set_time_series with two series whose indexes differ
Misaligned(call) ==
    /\ call.op = "set_time_series"
    /\ Indexes(call.arg[2]) # Indexes(call.arg[3])

\* C18: a set_time_series call with two series that do not have the same
\* timestamps fails and leaves the table and the header as they were.
C18_MisalignedFails ==
    [][Misaligned(last') => (last'.raised /\ data' = data)]_vars

\* set_time_series returned for a series of two timestamps and a series of
\* one, and the table holds a row whose third cell is nan
C18_Witness ==
    /\ Misaligned(last) /\ ~last.raised
    /\ Len(last.arg[2]) = 2 /\ Len(last.arg[3]) = 1
    /\ Len(data[last.num + 1].time_series) = 2
    /\ data[last.num + 1].time_series[2].v[3] = NaN

-----------------------------------------------------------------------------
(* Files that lack a header line or hold a data row of the wrong length *)

\* a block of the file has no header line of the name key
LacksLine(file, key) ==
    \E b \in 1..Len(TableNameAt(file)) :
        \A i \in 1..Len(LinesOfBlock(file, b)) :
            LET line == LinesOfBlock(file, b)[i]
            IN  line[1] = " " \/ line = L_blank \/ NameOfLine(line) # key
\* the constructor was called and raised
LoadRaised == last.op = "load" /\ last.raised

\* C19: TimeSeriesFile(filename) raises for a file with a block that has no
\* 'reference-time' line or no 'records-in-table' line.
C19_MissingLineFailsAtParse ==
    (ts_file # <<>> /\ (LacksLine(ts_file, K_reference_time)
                        \/ LacksLine(ts_file, K_records_in_table)))
        => LoadRaised

\* the constructor returned for a file of one block without a
\* 'records-in-table' line and with data rows; the block has no rows, and
\* export() raised
C19_Witness ==
    /\ last.op = "export" /\ last.raised
    /\ Len(TableNameAt(ts_file)) = 1
    /\ LacksLine(ts_file, K_records_in_table)
    /\ ~LacksLine(ts_file, K_reference_time)
    /\ ts_file[Len(ts_file)] = Row_1440
    /\ Len(data) = 1 /\ data[1].time_series = <<>>

\* the data rows of a file: the lines after a line that holds
\* 'records-in-table', up to the next line that holds 'table-name'
IsDataRow(file, i) ==
    /\ ~Contains(file[i], K_table_name)
    /\ \E j \in 1..(i - 1) :
           /\ Contains(file[j], K_records_in_table)
           /\ \A k \in (j + 1)..i : ~Contains(file[k], K_table_name)

\* C20: TimeSeriesFile(filename) raises for a file with a data row that
\* does not hold exactly three whitespace-separated tokens.
C20_WrongTokenCountFails ==
    (ts_file # <<>> /\ \E i \in 1..Len(ts_file) :
                           IsDataRow(ts_file, i) /\ Len(split(ts_file[i])) # 3)
        => LoadRaised

\* the constructor returned for a file of one complete block that ends
\* with a row of four tokens; the row is in the table with three cells
C20_Witness ==
    /\ last.op = "load" /\ ~last.raised
    /\ Len(TableNameAt(ts_file)) = 1
    /\ IsDataRow(ts_file, Len(ts_file)) /\ ts_file[Len(ts_file)] = Row_four
    /\ Len(data) = 1 /\ Len(data[1].time_series) = 2
    /\ Len(data[1].time_series[2].v) = 3

-----------------------------------------------------------------------------
(* DepFile on any depth file: the constructor and the calls that follow   *)

\* the text of a depth file of rows full rows of m + 1 numbers and, after
\* them, one more line of k numbers
RaggedDepText(rows, m, shift, k) ==
    DepText(rows, m, shift, D_sentinel, D_sentinel)
    \o Flatten([c \in 1..k |-> DepPool[((c + shift) % Len(DepPool)) + 1]])
    \o (IF k > 0 THEN <<NL>> ELSE <<>>)

\* depth files whose numbers do not fill rows of m + 1
RaggedDepFilesFor(m) ==
    {RaggedDepText(rows, m, shift, k) :
        rows \in 0..MaxDepRows, shift \in {0, 1}, k \in {1, m}}

\* the grids of these depth files: the grids of DepGrids, Cartesian and
\* Spherical
DepAnyGrids ==
    {GridText(cs, MV_999, mn[1], mn[2], GridX(mn[1], mn[2], T_1p5, 1),
              GridY(mn[1], mn[2], T_1p5, 1)) :
        cs \in {CS_Cartesian, CS_Spherical}, mn \in GridShapes \cup {<<12, 1>>}}

\* DepFile(filename, grd_file) for grd_file the GrdFile of the caller, a
\* grid of DepAnyGrids, and any depth file
DepAny_Init ==
    /\ grd_text \in DepAnyGrids
    /\ grd = grd_load_file(grd_text)
    /\ grd_out = NoOut
    /\ dep_text \in DepFilesFor(grd.header.MN[1]) \cup RaggedDepFilesFor(grd.header.MN[1])
    /\ dep = load_dep(dep_text, grd.header.MN[1])
    /\ dep_out = NoOut
    /\ last = NoCall /\ Sim_Idle
    /\ TS_Idle /\ Mdf_Idle

\* projection.transform(self.x, self.y) of pyproj: the numbers it returns
\* are not computed here; each cell stands as what it is made from, the
\* pair of its coordinates and the EPSG codes
transform(epsg, x, y) ==
    [x |-> [r \in 1..Len(x) |-> [c \in 1..Len(x[r]) |->
              [x[r][c] EXCEPT !.v = [k |-> "projected x", epsg |-> epsg,
                                     of |-> <<x[r][c].v, y[r][c].v>>]]]],
     y |-> [r \in 1..Len(y) |-> [c \in 1..Len(y[r]) |->
              [y[r][c] EXCEPT !.v = [k |-> "projected y", epsg |-> epsg,
                                     of |-> <<x[r][c].v, y[r][c].v>>]]]]]

\* the EPSG codes plot() is called with: the defaults
EPSG == <<4326, 3857>>

\* GrdFile.spherical_to_cartesian(sph_epsg, car_epsg)
spherical_to_cartesian(g, epsg) ==
    Strict(LAMBDA t : [g EXCEPT !.x = t.x, !.y = t.y,
                                !.header.coordinate_system = CS_Cartesian],
           transform(epsg, g.x, g.y))

\* what DepFile.plot() does to self.grd_file, the GrdFile of the caller
plot_grd_file(g, epsg) ==
    IF g.header.coordinate_system = CS_Spherical
    THEN spherical_to_cartesian(g, epsg)
    ELSE g

\* the arrays set_dep is called with: rows of 2, 11 and 23 numbers
SetDepCalls ==
    {[r \in 1..a[1] |-> [c \in 1..a[2] |->
            ParseFloat(strip(DepPool[((r + c) % Len(DepPool)) + 1], " ")).v]] :
        a \in {<<1, 2>>, <<1, 11>>, <<2, 23>>}}

\* DepFile.set_dep(data)
Dep_SetDep ==
    /\ dep.ok
    /\ \E new \in SetDepCalls :
        /\ dep' = [ok |-> TRUE, data |-> new, shape |-> <<Len(new), Len(new[1])>>]
        /\ last' = [op |-> "set_dep", raised |-> FALSE, num |-> 0,
                    arg |-> new, unit |-> FALSE]
        /\ UNCHANGED <<sim, dep_text, dep_out, ts_vars, mdf_vars, grd_vars>>

\* DepFile.plot(): the grid is converted first; what matplotlib draws, and
\* whether it draws, is outside the model
Dep_Plot ==
    /\ dep.ok
    /\ \E raised \in BOOLEAN :
        /\ grd' = plot_grd_file(grd, EPSG)
        /\ last' = [op |-> "plot", raised |-> raised, num |-> 0,
                    arg |-> EPSG, unit |-> FALSE]
        /\ UNCHANGED <<sim, grd_text, grd_out, dep_vars, ts_vars, mdf_vars>>

\* DepFile.to_file(filename): the lines of export() are written
Dep_ToFile ==
    /\ dep.ok
    /\ \E out \in {dep_export(dep)} :
        /\ dep_out' = out
        /\ last' = [op |-> "to_file", raised |-> ~out.ok, num |-> 0,
                    arg |-> <<>>, unit |-> FALSE]
        /\ UNCHANGED <<sim, dep_text, dep, ts_vars, mdf_vars, grd_vars>>

DepAny_Next == Dep_Export \/ Dep_SetDep \/ Dep_Plot \/ Dep_ToFile

SpecDepFile == DepAny_Init /\ [][DepAny_Next]_vars

\* the numbers of the depth file that fill no row of M + 1
Leftover == Len(TokensOf(dep_text)) % (GridM + 1)

\* C21: DepFile() fails when the number of the numbers in the depth file
\* is not divisible by M + 1: numbers that fill no group of M + 1 are never
\* silently dropped.
C21_LeftoverFails == (Leftover # 0) => ~dep.ok

\* a depth file of full rows and a last line of fewer numbers was loaded
\* and exported: the last line is in no row of the depth and in no line of
\* the export
C21_Witness ==
    /\ Leftover # 0 /\ dep.ok /\ last.op = "export" /\ dep_out.ok
    /\ dep.shape[1] = FileRows - 1
    /\ Len(TokensOf(Flatten(dep_out.lines))) = FileRows * (GridM + 1)
    /\ Len(TokensOf(dep_text)) > FileRows * (GridM + 1)

-----------------------------------------------------------------------------
(* GrdFile: set_gird and get_nearest_grid                                  *)

\* a cell of a plain ndarray: nothing is masked
PlainCell(v) == [v |-> v, masked |-> FALSE]

\* 4 * v for a float v that is a multiple of 0.25.  The coordinates of the
\* model are multiples of 0.25 below 1024: float64 computes their
\* differences, the squares and the sums without rounding, and np.sqrt
\* keeps the order of these sums, so that the distances compare as the
\* integers do.
Quarters(v) ==
    Strict(LAMBDA hundredths : (IF v.neg THEN -hundredths ELSE hundredths) \div 25,
           DigitsNat(v.d \o Rep(0, 2 - (Len(v.d) - 1 - v.e))))

\* a.ravel(): the cells of the array, row after row
ravel(a) == Flatten(a)

\* a.shape of a two-dimensional array
shape(a) == <<Len(a), IF a = <<>> THEN 0 ELSE Len(a[1])>>

\* GrdFile.set_gird(x, y, coordinate_system): nothing is compared
set_gird(g, x, y, coordinate_system) ==
    [g EXCEPT !.x = x, !.y = y,
              !.header.coordinate_system = coordinate_system,
              !.header.MN = <<shape(x)[2], shape(x)[1]>>]

\* np.argmin of the last index
argmin_last(dis) ==
    IF \A k \in 1..Len(dis) : dis[k].masked THEN Len(dis) - 1
    ELSE SetMax({k \in 1..Len(dis) :
                    /\ ~dis[k].masked
                    /\ \A j \in 1..Len(dis) : dis[j].masked \/ dis[k].d2 <= dis[j].d2}) - 1

\* np.argmin(dis): the first index of the least distance.  A masked
\* distance counts as +inf (MaskedArray.argmin fills with the greatest
\* float), so the index is 0 when every distance is masked.
argmin(dis) ==
    IF \A k \in 1..Len(dis) : dis[k].masked THEN 0
    ELSE SetMin({k \in 1..Len(dis) :
                    /\ ~dis[k].masked
                    /\ \A j \in 1..Len(dis) : dis[j].masked \/ dis[k].d2 <= dis[j].d2}) - 1

\* GrdFile.get_nearest_grid(x, y) on a grid that is not Spherical; d2 is
\* 16 times the square of the distance.  ok = FALSE is ValueError: the
\* arrays do not broadcast, or unravel_index gets an index beyond N * M.
get_nearest_grid(g, x, y) ==
    Strict(LAMBDA grd_x :
    Strict(LAMBDA grd_y :
        IF Len(grd_x) # Len(grd_y) /\ Len(grd_x) # 1 /\ Len(grd_y) # 1
        THEN [ok |-> FALSE, m |-> 0, n |-> 0]
        ELSE Strict(LAMBDA num :
                 IF num >= g.header.MN[2] * g.header.MN[1]
                 THEN [ok |-> FALSE, m |-> 0, n |-> 0]
                 ELSE [ok |-> TRUE, m |-> num % g.header.MN[1],
                       n |-> num \div g.header.MN[1]],
             argmin([k \in 1..Max(Len(grd_x), Len(grd_y)) |->
                 Strict(LAMBDA cx :
                 Strict(LAMBDA cy :
                     [masked |-> cx.masked \/ cy.masked,
                      d2 |-> (Quarters(x) - Quarters(cx.v)) * (Quarters(x) - Quarters(cx.v))
                             + (Quarters(y) - Quarters(cy.v)) * (Quarters(y) - Quarters(cy.v))],
                     IF Len(grd_y) = 1 THEN grd_y[1] ELSE grd_y[k]),
                     IF Len(grd_x) = 1 THEN grd_x[1] ELSE grd_x[k])])),
        ravel(g.y)),
        ravel(g.x))

-----------------------------------------------------------------------------
(* GrdFile: the grids, the arrays and the points of the model *)

\* a Missing Value line with a value that the grids of the model hold
MV_7p75 == <<"M", "i", "s", "s", "i", "n", "g", " ", "V", "a", "l", "u", "e", " ", "=", " ", "7", ".", "7", "5", "0", "0", "0", "0", "0", "e", "+", "0", "0", "\n">>

\* shapes with rows of less than 5, of 5, of more than 5 and of 10 numbers
NearShapes == {<<2, 2>>, <<5, 2>>, <<6, 1>>, <<10, 1>>}

NearGrids ==
    {GridText(cs, mv, mn[1], mn[2], GridX(mn[1], mn[2], special, 1),
              GridY(mn[1], mn[2], special, 1)) :
        cs \in {CS_Cartesian, CS_Spherical}, mv \in {MV_none, MV_7p75},
        mn \in NearShapes, special \in {T_1p5, T_zero}}

\* the float of a token of the model
F(tok) == ParseFloat(tok).v

\* np.array(rows) for rows of tokens
Plain(rows) == [r \in 1..Len(rows) |-> [c \in 1..Len(rows[r]) |-> PlainCell(F(rows[r][c]))]]

\* the calls of set_gird: x and y of one shape, with and without a node at
\* (0, 0), and x and y of two shapes
SetGirdCalls ==
    {[x |-> Plain(a[1]), y |-> Plain(a[2]), coordinate_system |-> cs] :
        a \in {<< <<<<T_1p5, T_3>>, <<T_7p75, T_12p5>>>>,
                  <<<<T_3, T_3>>, <<T_1p5, T_225>>>> >>,
               << <<<<T_zero, T_3>>>>, <<<<T_zero, T_1p5>>>> >>,
               << <<<<T_1p5, T_3>>, <<T_7p75, T_12p5>>>>, <<<<T_3, T_1p5>>>> >>,
               << <<<<T_1p5>>>>, <<<<T_3, T_1p5>>>> >>},
        cs \in {CS_Cartesian, CS_Spherical}}

\* the coordinates get_nearest_grid is asked for
QueryValues == {F(T_zero), F(T_1p5), F(T_3), F(T_12p5)}

-----------------------------------------------------------------------------
(* GrdFile: the constructor and the calls that follow *)

GrdFile_Init ==
    /\ grd_text \in NearGrids
    /\ grd = grd_load_file(grd_text)
    /\ grd_out = NoOut
    /\ last = NoCall /\ Sim_Idle
    /\ TS_Idle /\ Mdf_Idle /\ Dep_Idle

\* GrdFile.set_gird(x, y, coordinate_system)
Grd_SetGird ==
    /\ grd.ok
    /\ \E call \in SetGirdCalls :
        /\ grd' = set_gird(grd, call.x, call.y, call.coordinate_system)
        /\ grd_out' = NoOut
        /\ last' = [op |-> "set_gird", raised |-> FALSE, num |-> 0,
                    arg |-> call, unit |-> FALSE]
        /\ UNCHANGED <<sim, grd_text, ts_vars, mdf_vars, dep_vars>>

\* GrdFile.get_nearest_grid(x, y) on a grid that is not Spherical: there
\* the coordinates go through pyproj first, which the model does not hold
Grd_GetNearestGrid ==
    /\ grd.ok
    /\ grd.header.coordinate_system # CS_Spherical
    /\ \E x \in QueryValues, y \in QueryValues :
       \E r \in {get_nearest_grid(grd, x, y)} :
        /\ grd_out' = [ok |-> r.ok, lines |-> <<>>, m |-> r.m, n |-> r.n]
        /\ last' = [op |-> "get_nearest_grid", raised |-> ~r.ok, num |-> 0,
                    arg |-> <<x, y>>, unit |-> FALSE]
        /\ UNCHANGED <<sim, grd_text, grd, ts_vars, mdf_vars, dep_vars>>

GrdFile_Next == Grd_SetGird \/ Grd_GetNearestGrid \/ Grd_Export

SpecGrdFile == GrdFile_Init /\ [][GrdFile_Next]_vars

\* the nodes of the grid: the places (row, column) of the cells that are
\* not masked in x or in y
Nodes ==
    {rc \in (1..Len(grd.x)) \X (1..Len(grd.x[1])) :
        ~grd.x[rc[1]][rc[2]].masked /\ ~grd.y[rc[1]][rc[2]].masked}

\* 16 times the square of the distance of the node rc from the point p
Distance2(rc, p) ==
    (Quarters(p[1]) - Quarters(grd.x[rc[1]][rc[2]].v))
        * (Quarters(p[1]) - Quarters(grd.x[rc[1]][rc[2]].v))
    + (Quarters(p[2]) - Quarters(grd.y[rc[1]][rc[2]].v))
        * (Quarters(p[2]) - Quarters(grd.y[rc[1]][rc[2]].v))

\* rc comes before other in row-major order
RowMajorBefore(rc, other) ==
    rc[1] < other[1] \/ (rc[1] = other[1] /\ rc[2] < other[2])

\* get_nearest_grid has returned for a grid whose x and y have one shape
Answered ==
    /\ last.op = "get_nearest_grid" /\ ~last.raised
    /\ shape(grd.x) = shape(grd.y) /\ Nodes # {}

\* C22: get_nearest_grid(x, y) on a Cartesian grid returns (m, n) = (column,
\* row), counted from 0, of a node whose distance to (x, y) is the least
\* over all the nodes; asked for the coordinates of the node at row r,
\* column c it returns (c, r) when no other node has these coordinates, and
\* among equally near nodes it returns the first in row-major order.
C22_NearestNode ==
    Answered =>
        \E rc \in {<<grd_out.n + 1, grd_out.m + 1>>} :
            /\ rc \in Nodes
            /\ \A other \in Nodes :
                /\ Distance2(rc, last.arg) <= Distance2(other, last.arg)
                /\ Distance2(rc, last.arg) = Distance2(other, last.arg)
                       => (rc = other \/ RowMajorBefore(rc, other))
                /\ (/\ grd.x[other[1]][other[2]].v = last.arg[1]
                    /\ grd.y[other[1]][other[2]].v = last.arg[2]
                    /\ \A third \in Nodes \ {other} :
                           \/ grd.x[third[1]][third[2]].v # last.arg[1]
                           \/ grd.y[third[1]][third[2]].v # last.arg[2])
                       => rc = other

\* get_nearest_grid has returned the first of two nodes with the
\* coordinates it was asked for, in a row of more than one column, and
\* this node is not the first of the grid
C22_Witness ==
    /\ Answered
    /\ grd_out.m > 0 /\ grd_out.n = 0
    /\ Len(grd.x) = 1
    /\ \E c \in 1..Len(grd.x[1]) :
        /\ c > grd_out.m + 1
        /\ grd.x[1][c].v = last.arg[1] /\ grd.y[1][c].v = last.arg[2]
        /\ grd.x[1][grd_out.m + 1].v = last.arg[1]
        /\ grd.y[1][grd_out.m + 1].v = last.arg[2]

\* the cell holds the missing value of the header
IsSentinel(cell) == masked_equal(cell.v, grd.header.missing_value).masked

\* the places of the grid with the missing value in x or in y
SentinelPlaces ==
    {rc \in (1..Len(grd.x)) \X (1..Len(grd.x[1])) :
        IsSentinel(grd.x[rc[1]][rc[2]]) \/ IsSentinel(grd.y[rc[1]][rc[2]])}

\* C23: after parsing a grid and any sequence of set_gird calls,
\* get_nearest_grid never returns the index of a node with a coordinate
\* equal to the missing value while a node without one exists: these cells
\* are left out of the comparison of the distances.
C23_NeverSentinel ==
    (/\ last.op = "get_nearest_grid" /\ ~last.raised
     /\ shape(grd.x) = shape(grd.y)
     /\ SentinelPlaces # (1..Len(grd.x)) \X (1..Len(grd.x[1])))
        => <<grd_out.n + 1, grd_out.m + 1>> \notin SentinelPlaces

\* after set_gird with plain arrays get_nearest_grid has returned the node
\* (0, 0), which holds the missing value 0 in x and in y and is not masked,
\* while the grid has another node
C23_Witness ==
    /\ last.op = "get_nearest_grid" /\ ~last.raised
    /\ shape(grd.x) = shape(grd.y)
    /\ grd_out.m = 0 /\ grd_out.n = 0
    /\ <<1, 1>> \in SentinelPlaces /\ <<1, 2>> \notin SentinelPlaces
    /\ ~grd.x[1][1].masked /\ ~grd.y[1][1].masked
    /\ grd.x # grd_load_file(grd_text).x

\* the same for a grid as the constructor left it, where the cells with
\* the missing value are masked
NeverSentinelParsed ==
    grd = grd_load_file(grd_text) => C23_NeverSentinel

\* C24: no call of a DepFile (set_dep, export, plot, to_file) changes the
\* coordinates or the coordinate system of the GrdFile the caller passed
\* in: the grid is the same before and after the call.
C24_GridUntouched == [][grd' = grd]_vars

\* plot() has returned for a DepFile made with a Spherical grid: the grid
\* of the caller is Cartesian now and holds other coordinates than the
\* file gave it
C24_Witness ==
    /\ last.op = "plot" /\ ~last.raised
    /\ Contains(grd_text, CS_Spherical)
    /\ grd.header.coordinate_system = CS_Cartesian
    /\ grd.x # grd_load_file(grd_text).x
    /\ grd.header.MN = grd_load_file(grd_text).header.MN

\* the number of lines export() writes for a row of k numbers
LinesPerRow(k) == (k + 11) \div 12

\* the values of row r of the matrix that belong on line j of the row
ValuesOnLine(matrix, r, j) ==
    SubSeq(matrix[r], (j - 1) * 12 + 1, Min(j * 12, Len(matrix[r])))

\* the line is numbers and spaces closed by one line feed, and its numbers
\* are the values, in their order
HoldsValues(line, values) ==
    /\ line # <<>> /\ line[Len(line)] = NL
    /\ \A i \in 1..(Len(line) - 1) : line[i] # NL
    /\ \E toks \in {TokensOf(line)} :
        /\ Len(toks) = Len(values)
        /\ \A i \in 1..Len(toks) : ParseFloat(toks[i]) = [ok |-> TRUE, v |-> values[i]]

-----------------------------------------------------------------------------
(* MdfFile: the constructor on files of any lines *)

\* the lines of these files: three lines that begin a parameter, a Commnt
\* line, and a line without a name, with and without '#'
ParseLines ==
    {G_Runtxt[1], G_Dt[1], G_MNKmax_lines[1], G_Commnt[1], G_Runtxt[2], G_MNKmax_lines[2]}

\* the greatest number of lines of such a file
MaxParseLines == 4

MdfParseFiles ==
    UNION {[1..n -> ParseLines] : n \in 1..MaxParseLines}

\* before MdfFile(filename) for a file of MdfParseFiles
MdfParse_Init ==
    /\ mdf_file \in MdfParseFiles
    /\ mdf_data = <<>>
    /\ mdf_out = NoOut
    /\ last = NoCall /\ Sim_Idle
    /\ TS_Idle /\ Grd_Idle /\ Dep_Idle

\* MdfFile(filename): load_file
Mdf_Load ==
    /\ last.op = "none"
    /\ \E r \in {mdf_load_file(mdf_file)} :
        /\ mdf_data' = r.data
        /\ last' = [op |-> "load", raised |-> ~r.ok, num |-> 0,
                    arg |-> <<>>, unit |-> FALSE]
        /\ UNCHANGED <<sim, mdf_file, mdf_out, ts_vars, grd_vars, dep_vars>>

\* MdfFile.export() of a store that was loaded
Mdf_ExportLoaded ==
    /\ last.op # "none" /\ ~(last.op = "load" /\ last.raised)
    /\ Mdf_Export

MdfParse_Next == Mdf_Load \/ Mdf_ExportLoaded

SpecMdfParse == MdfParse_Init /\ [][MdfParse_Next]_vars

\* line i of the file has the pattern 'name = value'
IsNameValue(file, i) == MdfLineParse(file[i]).matches

\* the lines that continue the 'name = value' line j: the lines after it
\* up to the next 'name = value' line
Continuations(file, j) ==
    {i \in (j + 1)..Len(file) : \A k \in (j + 1)..i : ~IsNameValue(file, k)}

\* the value of a parameter after the lines i.. of the set conts were
\* attached to it one after the other
RECURSIVE Attached(_, _, _, _)
Attached(file, val, i, conts) ==
    IF i \notin conts THEN [ok |-> TRUE, val |-> val]
    ELSE Strict(LAMBDA r : IF r.ok THEN Attached(file, r.val, i + 1, conts) ELSE r,
                mdf_multiple(TRUE, val, MdfLineParse(file[i])))

\* the lines that begin a parameter the last time its name begins one
LastParameterLines(file) ==
    {j \in 1..Len(file) :
        /\ IsNameValue(file, j) /\ MdfLineParse(file[j]).g1 # K_Commnt
        /\ \A k \in (j + 1)..Len(file) :
               IsNameValue(file, k) => MdfLineParse(file[k]).g1 # MdfLineParse(file[j]).g1}

\* the store holds for the parameter of line j what its line and the
\* lines that continue it give
HoldsItsLines(file, store, j) ==
    \E name \in {MdfLineParse(file[j]).g1} :
    \E first \in {mdf_single(MdfLineParse(file[j]))} :
        /\ first.ok /\ HasKey(store, name)
        /\ Attached(file, first.val, j + 1, Continuations(file, j))
               = [ok |-> TRUE, val |-> Get(store, name)]

\* C25: a line of the file without the pattern 'name = value' is attached
\* to the parameter of the 'name = value' line just before it: with '#' as
\* one more string of its list, without '#' as one more row of its
\* one-column matrix.  A Commnt line is never continued, and no line is
\* attached to a parameter from which a Commnt line separates it.
C25_AttachedToLineBefore ==
    (last.op = "load" /\ ~last.raised) =>
        \A j \in LastParameterLines(mdf_file) : HoldsItsLines(mdf_file, mdf_data, j)

\* the same for the files in which no line follows a Commnt line without
\* beginning a parameter
NoLineContinuesCommnt(file) ==
    \A i \in 2..Len(file) :
        (IsNameValue(file, i - 1) /\ MdfLineParse(file[i - 1]).g1 = K_Commnt)
            => IsNameValue(file, i)

AttachedButAfterCommnt ==
    (last.op = "load" /\ ~last.raised /\ NoLineContinuesCommnt(mdf_file))
        => \A j \in LastParameterLines(mdf_file) : HoldsItsLines(mdf_file, mdf_data, j)

\* the file Dt, Commnt and a line with a number was loaded: Dt is a matrix
\* of two rows, the second the number of the line after the Commnt line
C25_Witness ==
    /\ last.op = "load" /\ ~last.raised
    /\ mdf_file = <<G_Dt[1], G_Commnt[1], G_MNKmax_lines[2]>>
    /\ Get(mdf_data, K_Dt).t = "ndarray" /\ Get(mdf_data, K_Dt).dim = 2
    /\ Len(Get(mdf_data, K_Dt).a) = 2
    /\ Get(mdf_data, K_Dt).a[2] = FromInt(8)

-----------------------------------------------------------------------------
(* Claims on what set_parm leaves for export() *)

\* the entry is a scalar, a vector or a matrix of numbers, a string or a
\* list of strings
IsOfFiveKinds(val) ==
    \/ val.t = "float"
    \/ val.t = "ndarray" /\ val.dim \in {1, 2} /\ val.a # <<>>
                         /\ \A i \in 1..Len(val.a) : val.a[i].k \in {"num", "nan"}
    \/ val.t = "str"
    \/ val.t = "list" /\ val.a # <<>>

Renderable(store) == \A i \in 1..Len(store) : IsOfFiveKinds(store[i].val)

\* C26: every value that set_parm accepts without error leaves the store
\* in a state that export() can render: after a successful set_parm on a
\* store of scalars, vectors, matrices, strings and lists of strings every
\* entry is of one of these five kinds and export() does not raise.
C26_AcceptedIsRenderable ==
    [][(last'.op = "set_parm" /\ ~last'.raised /\ Renderable(mdf_data))
          => (Renderable(mdf_data') /\ mdf_export(mdf_data').ok)]_vars

\* export() raises only for a store with an entry of another kind
RaisesOnlyForOtherKinds ==
    (last.op = "export" /\ last.raised) => ~Renderable(mdf_data)

\* set_parm({'Runtxt': 5}) has returned and export() has raised: the store
\* holds the int 5 under Runtxt
C26_Witness ==
    /\ last.op = "export" /\ last.raised
    /\ HasKey(mdf_data, K_Runtxt)
    /\ Get(mdf_data, K_Runtxt).t = "int"
    /\ \A i \in 1..Len(mdf_data) :
           mdf_data[i].key # K_Runtxt => IsOfFiveKinds(mdf_data[i].val)

-----------------------------------------------------------------------------
(* Claims on the lines of a grid file *)

\* the places of a text where its words begin
WordStarts(text) ==
    SortedSet({i \in 1..Len(text) :
                  ~IsSpace(text[i]) /\ (i = 1 \/ IsSpace(text[i - 1]))})

\* the number of blanks just before place i of the text
BlanksBefore(text, i) ==
    i - 1 - SetMax({0} \cup {j \in 1..(i - 1) : text[j] # " "})

\* the number of line feeds before place i of the text
LineFeedsBefore(text, i) == Cardinality({j \in 1..(i - 1) : text[j] = NL})

\* the word is the number of the cell as a grid file shows it
ShowsCell(word, cell) ==
    IF cell.masked THEN word = <<"N", "A", "N">>
    ELSE ParseFloat(word) = [ok |-> TRUE, v |-> cell.v]

\* the text is the row cells with the label index: the label, then the
\* numbers in order, 5 on a physical line, the first number of a line
\* after the first line 13 blanks in, the others after 3 blanks, and one
\* line feed at the end of each line
IsGridRow(text, index, cells) ==
    \E starts \in {WordStarts(text)} :
    \E m \in {Len(cells)} :
        /\ SubSeq(text, 1, Len(L_ETA) + 5) = L_ETA \o rjust(str(index), 5)
        /\ Len(starts) = m + 2
        /\ text[Len(text)] = NL
        /\ LineFeedsBefore(text, Len(text) + 1) = (m + 4) \div 5
        /\ \A i \in 2..Len(text) : ~(text[i] = NL /\ text[i - 1] = NL)
        /\ \A c \in 1..m :
            \E at \in {starts[c + 2]} :
                /\ ShowsCell(SubSeq(text, at, at + RunLenNot(text, at, Space) - 1),
                             cells[c])
                /\ LineFeedsBefore(text, at) = (c - 1) \div 5
                /\ BlanksBefore(text, at) = IF c > 1 /\ c % 5 = 1 THEN 13 ELSE 3
                /\ (c > 1 /\ c % 5 = 1) => text[at - 14] = NL

\* the number of lines export() writes before the rows
HeaderLinesOf(g) == IF IsZero(g.header.missing_value) THEN 3 ELSE 4

C29_OneShape ==
    grd.ok =>
        /\ shape(grd.x) = <<grd.header.MN[2], grd.header.MN[1]>>
        /\ shape(grd.y) = <<grd.header.MN[2], grd.header.MN[1]>>
        /\ last.op = "export" =>
            /\ grd_out.lines[HeaderLinesOf(grd) - 1]
                   = rjust(str(Len(grd.y[1])), 8) \o rjust(str(Len(grd.y)), 8) \o <<NL>>
            /\ Len(grd_out.lines) = HeaderLinesOf(grd) + 2 * grd.header.MN[2]

\* the same for a grid as the constructor left it
OneShapeParsed ==
    grd = grd_load_file(grd_text) => C29_OneShape

\* set_gird was given x of 2 rows and y of 1 row, and export() has written
\* the dimensions 2 and 2 over two rows of X and one row of Y
C29_Witness ==
    /\ last.op = "export" /\ grd.ok /\ grd_out.ok
    /\ shape(grd.x) = <<2, 2>> /\ shape(grd.y) = <<1, 2>>
    /\ grd.header.MN = <<2, 2>>
    /\ grd_out.lines[HeaderLinesOf(grd) - 1] = rjust(str(2), 8) \o rjust(str(2), 8) \o <<NL>>
    /\ Len(grd_out.lines) = HeaderLinesOf(grd) + 3

-----------------------------------------------------------------------------
(* Simulation.sim_unit: the files it writes next to the mdf file, and the  *)
(* mdf file itself.  The call waits for os.system in its middle, so it is  *)
(* two steps: up to the start of the simulation, and from its exit on.     *)

\* the greatest run_id of the model; np.random.randint(1, 10000) draws it
MaxRunId == 2
RunIds == 1..MaxRunId

\* 'config_d_hydro_%d.xml' % run_id and 'run_%d.bat' % run_id
XmlName(run_id) ==
    <<"c", "o", "n", "f", "i", "g", "_", "d", "_", "h", "y", "d", "r", "o", "_">> \o str(run_id) \o <<".", "x", "m", "l">>
BatName(run_id) ==
    <<"r", "u", "n", "_">> \o str(run_id) \o <<".", "b", "a", "t">>

\* MdfFile.to_file(mdf_path) of the store d: ok = FALSE when export()
\* raises, before the file is opened
mdf_to_file(d) == mdf_export(d)

\* Simulation.output_nc(mdf_path): the lines of the mdf file afterwards
output_nc(lines) ==
    Strict(LAMBDA mdf :
               IF ~mdf.ok THEN [ok |-> FALSE, lines |-> lines]
               ELSE Strict(LAMBDA r : IF ~r.ok THEN [ok |-> FALSE, lines |-> lines]
                                      ELSE mdf_to_file(r.d),
                           add_parm(mdf.data, <<ParmItem(K_FlNcdf, PyStr(V_FlNcdf))>>)),
           mdf_load_file(lines))

\* del mdf.data['FlNcdf']; ok = FALSE is KeyError
del_FlNcdf(d) ==
    IF ~HasKey(d, K_FlNcdf) THEN [ok |-> FALSE, d |-> d]
    ELSE [ok |-> TRUE, d |-> SelectSeq(d, LAMBDA item : item.key # K_FlNcdf)]

\* the end of sim_unit for netcdf=True: the mdf file is read, FlNcdf is
\* deleted and the file is written
restore_mdf(lines) ==
    Strict(LAMBDA mdf :
               IF ~mdf.ok THEN [ok |-> FALSE, lines |-> lines]
               ELSE Strict(LAMBDA r : IF ~r.ok THEN [ok |-> FALSE, lines |-> lines]
                                      ELSE mdf_to_file(r.d),
                           del_FlNcdf(mdf.data)),
           mdf_load_file(lines))

\* the mdf file holds a line that begins the parameter FlNcdf
HoldsFlNcdf(lines) ==
    \E i \in 1..Len(lines) : lines[i][1] # " " /\ NameOfLine(lines[i]) = K_FlNcdf

\* the mdf file of a simulation, before any run
Sim_Init ==
    /\ mdf_file \in MdfEditFiles
    /\ mdf_data = <<>>
    /\ mdf_out = NoOut
    /\ sim = NoSim
    /\ last = NoCall
    /\ TS_Idle /\ Grd_Idle /\ Dep_Idle

\* sim_unit(mdf_path, disp, netcdf) up to os.system: output_nc for
\* netcdf=True, create_xml, create_bat.  With netcdf=True it is called for
\* an mdf file without FlNcdf, as add_parm is known for new names only.
Sim_Start ==
    /\ sim.pc # "running"
    /\ \E run_id \in RunIds, disp \in BOOLEAN, netcdf \in BOOLEAN :
        /\ netcdf => ~HoldsFlNcdf(mdf_file)
        /\ \E r \in {IF netcdf THEN output_nc(mdf_file)
                     ELSE [ok |-> TRUE, lines |-> mdf_file]} :
            /\ mdf_file' = r.lines
            /\ sim' = [pc |-> IF r.ok THEN "running" ELSE "raised in output_nc",
                       run_id |-> run_id, netcdf |-> netcdf, disp |-> disp,
                       files |-> IF r.ok
                                 THEN sim.files \cup {XmlName(run_id), BatName(run_id)}
                                 ELSE sim.files]
            /\ last' = [op |-> "sim_unit", raised |-> ~r.ok, num |-> run_id,
                        arg |-> <<disp, netcdf>>, unit |-> FALSE]
            /\ UNCHANGED <<mdf_data, mdf_out, ts_vars, grd_vars, dep_vars>>

\* sim_unit from the return of os.system on: status is what the
\* simulation exited with
Sim_Exit ==
    /\ sim.pc = "running"
    /\ \E status \in {0, 1} :
        IF status # 0
        THEN \* raise RuntimeError("Simulation failed")
             /\ sim' = [sim EXCEPT !.pc = "raised"]
             /\ last' = [last EXCEPT !.raised = TRUE]
             /\ UNCHANGED <<mdf_vars, ts_vars, grd_vars, dep_vars>>
        ELSE \E r \in {IF sim.netcdf THEN restore_mdf(mdf_file)
                       ELSE [ok |-> TRUE, lines |-> mdf_file]} :
             /\ mdf_file' = r.lines
             /\ sim' = [sim EXCEPT !.pc = IF r.ok THEN "returned" ELSE "raised in restore",
                                   !.files = @ \ {XmlName(sim.run_id), BatName(sim.run_id)}]
             /\ last' = [last EXCEPT !.raised = ~r.ok]
             /\ UNCHANGED <<mdf_data, mdf_out, ts_vars, grd_vars, dep_vars>>

Sim_Next == Sim_Start \/ Sim_Exit

SpecSimulation == Sim_Init /\ [][Sim_Next]_vars

\* the files of the run are gone and, for netcdf=True, the mdf file is
\* without FlNcdf
Restored ==
    /\ XmlName(sim.run_id) \notin sim.files
    /\ BatName(sim.run_id) \notin sim.files
    /\ sim.netcdf => ~HoldsFlNcdf(mdf_file)

\* C30: once sim_unit has finished, whether it returns or raises because
\* the simulation exited with a status other than 0, the files
\* config_d_hydro_<id>.xml and run_<id>.bat of the run no longer exist
\* and, for netcdf=True, the mdf file no longer holds the parameter FlNcdf
\* that was added before the run.
C30_RestoredWhenFinished ==
    sim.pc \in {"returned", "raised"} => Restored

\* the same for the calls that return
RestoredWhenReturned ==
    sim.pc = "returned" => Restored

\* sim_unit(netcdf=True) has raised for a simulation that failed: both
\* files of the run are in the directory and the mdf file holds FlNcdf
C30_Witness ==
    /\ sim.pc = "raised" /\ last.op = "sim_unit" /\ last.raised
    /\ sim.netcdf
    /\ XmlName(sim.run_id) \in sim.files /\ BatName(sim.run_id) \in sim.files
    /\ HoldsFlNcdf(mdf_file)

====
